---- MODULE Spec2Model ----
(***************************************************************************)
(* Signaling relay with deadline-bounded answer aggregation.               *)
(* Models ws/socketServer.js (the aggregating variant, src/unnamed/        *)
(* part_006) on top of services/socketService.js.                          *)
(***************************************************************************)
EXTENDS Integers, Sequences, FiniteSets, TLC

(* ----------------------------- bounds ---------------------------------- *)
MaxConns == 2          \* connections ever accepted (uuid per connection, never reused)
MaxSessions == 2       \* aggregation sessions ever opened
MaxOffers == 2         \* entries in the offers array of one message
MaxAnswers == 1        \* entries in the answers array of one message
MaxIce == 2            \* candidates stored per user and meeting
MaxMsgs == 4           \* frames the clients send in one run

Users == {"u1", "u2"}
Meetings == {"m1"}
Sdps == {"sdpA", "sdpB"}
NULL == "null"         \* JS null / undefined / missing field
NoClient == 0          \* getClientIdByUser(...) || null
ClientIds == 1..MaxConns
SessionIds == 1..MaxSessions

(* candidate lists that may accompany an answer *)
Candidates == {"k1"}
CandLists == {<<k>> : k \in Candidates}

(* data.candidates of an answer message: array of {user_id, candidates} *)
CandidateGroupInputs ==
    {<<>>} \cup {<<[user_id |-> u, candidates |-> cl]>> : u \in Users, cl \in CandLists}

(* non-empty arrays of length <= n over S, plus the empty array *)
ArraysUpTo(S, n) == UNION {[1..k -> S] : k \in 0..n}

(* data.offers: each offer is relayed as is; only its `to` decides routing *)
OfferInputs == ArraysUpTo(Users, MaxOffers)

(* data.answers: {to, sdp_details} *)
AnswerRec == [to : Users, sdp : Sdps]
AnswerInputs == ArraysUpTo(AnswerRec, MaxAnswers)

VARIABLES
    clients,        \* socketService.clients: set of open clientIds (clientId -> ws)
    metas,          \* socketService.metas: clientId -> {userId, meetingId}
    userToClient,   \* socketService.userToClient: userId -> clientId (NoClient = absent)
    nextClient,     \* next fresh clientId (uuidv4 never repeats)
    meetings,       \* meetings[meetingId] = {participants, sdps, iceCandidates}
    waitingAnswers, \* waitingAnswers[joinerKey] = {expected, collected, ...}
    timers,         \* pending setTimeout callbacks, in firing order
    nextSid,        \* number of the next aggregation session (history)
    flushLog,       \* history: per session, how often it was flushed
    received,       \* number of frames received so far (history)
    directIce,      \* directIce[key][userId]: candidates of direct calls (enhanced server)
    inp,            \* the frame the last handler was given (history)
    out,            \* frames written to sockets by the last handler, in order
    queue,          \* queue[clientId]: frames sent on the connection, not yet emitted
    wire,           \* wire[clientId]: frames the handlers forwarded to the socket, in order (history)
    quiet,          \* quiet[clientId]: probe intervals elapsed since its last frame (history)
    escaped         \* an exception has left a 'message' listener (history)

vars == <<clients, metas, userToClient, nextClient, meetings, waitingAnswers,
          timers, nextSid, flushLog, received, directIce, inp, out, queue, wire, quiet,
          escaped>>

auxVars == <<queue, wire, quiet, escaped>>

registryVars == <<clients, metas, userToClient, nextClient>>

(* ------------------------- socketService.js ---------------------------- *)

EmptyMeta == [userId |-> NULL, meetingId |-> NULL]

getMeta(ms, clientId) == IF clientId \in DOMAIN ms THEN ms[clientId] ELSE EmptyMeta

getClientIdByUser(u2c, userId) == IF userId \in DOMAIN u2c THEN u2c[userId] ELSE NoClient

getWsByClientId(cs, clientId) == clientId \in cs

(* variant of bindUserMetas: the metadata is replaced by a fresh object *)
bindUserMetasFresh(ms, clientId, userId) ==
    [c \in DOMAIN ms \cup {clientId} |->
        IF c = clientId THEN [EmptyMeta EXCEPT !.userId = userId] ELSE ms[c]]

(* bindUser: meta.userId = userId; userToClient.set(userId, clientId) *)
bindUserMetas(ms, clientId, userId) ==
    [c \in DOMAIN ms \cup {clientId} |->
        IF c = clientId THEN [getMeta(ms, c) EXCEPT !.userId = userId] ELSE ms[c]]

(* variant of bindUserMap: first registration wins *)
bindUserFirstWins(u2c, clientId, userId) ==
    IF u2c[userId] = NoClient THEN [u2c EXCEPT ![userId] = clientId] ELSE u2c

bindUserMap(u2c, clientId, userId) == [u2c EXCEPT ![userId] = clientId]

bindMeeting(ms, clientId, meetingId) ==
    [c \in DOMAIN ms \cup {clientId} |->
        IF c = clientId THEN [getMeta(ms, c) EXCEPT !.meetingId = meetingId] ELSE ms[c]]

(* removeSocket: the user's mapping is deleted whoever owns it *)
removeSocketMap(ms, u2c, clientId) ==
    IF clientId \in DOMAIN ms /\ ms[clientId].userId # NULL
    THEN [u2c EXCEPT ![ms[clientId].userId] = NoClient]
    ELSE u2c

(* variant of removeSocketMetas: the entry is reset instead of deleted *)
removeSocketMetasReset(ms, clientId) ==
    [c \in DOMAIN ms \cup {clientId} |-> IF c = clientId THEN EmptyMeta ELSE ms[c]]

removeSocketMetas(ms, clientId) == [c \in DOMAIN ms \ {clientId} |-> ms[c]]

EmptyMap == [k \in {} |-> NULL]                       \* {}
NoKey == <<NULL, NULL>>
Plain(name) == [at |-> name, key |-> NoKey, rec |-> EmptyMap]

(* ------------------------------ frames --------------------------------- *)

(* `site` names the statement that wrote the frame (history, not on the wire) *)
Frame(to, type, site, data) == [to |-> to, type |-> type, site |-> site, data |-> data]

(* site of a frame written while handling joinerKey; `rec` is what the      *)
(* session had been given to record when it was flushed                     *)
At(name, joinerKey, rec) == [at |-> name, key |-> joinerKey, rec |-> rec]

(* sendToClient: a frame is written only when the socket is still registered *)
sendToClient(cs, o, clientId, type, site, data) ==
    IF getWsByClientId(cs, clientId)
    THEN Append(o, Frame(clientId, type, site, data))
    ELSE o

(* catch block of handleMessage: the thrown message goes back to the sender *)
ErrorTo(cs, o, clientId, text) ==
    sendToClient(cs, o, clientId, "error", Plain("catch"), [message |-> text])

(* --------------------------- sequences --------------------------------- *)

RECURSIVE SeqToSet(_)
SeqToSet(s) == IF s = <<>> THEN {} ELSE {Head(s)} \cup SeqToSet(Tail(s))

RECURSIVE RemoveTimer(_, _)
RemoveTimer(tm, id) ==
    IF tm = <<>> THEN <<>>
    ELSE IF Head(tm).id = id THEN RemoveTimer(Tail(tm), id)
    ELSE <<Head(tm)>> \o RemoveTimer(Tail(tm), id)

(* ------------------------ aggregation sessions ------------------------- *)

JoinerKey(meetingId, userId) == <<meetingId, userId>>   \* `${meetingId}:${userId}`


(* a fresh waitingAnswers entry; `order` is the key order of `collected` *)
NewEntry(sid, targets, clientId) ==
    [sid |-> sid,
     expected |-> targets,
     order |-> <<>>,
     collected |-> EmptyMap,
     collectedCandidates |-> EmptyMap,
     joinerClientId |-> clientId,
     timer |-> sid,
     rec |-> EmptyMap]        \* history: answers handed to this session, by peer

(* obj[key] = value on a JS object: a new key goes last, an old key keeps its place *)
Put(f, key, value) == [k \in DOMAIN f \cup {key} |-> IF k = key THEN value ELSE f[k]]

PutOrder(order, key) == IF key \in SeqToSet(order) THEN order ELSE Append(order, key)

(* loops of flushWaitingAnswers over Object.keys(entry.collected) *)
RECURSIVE CollectedAnswers(_, _)
CollectedAnswers(entry, order) ==
    IF order = <<>> THEN <<>>
    ELSE <<entry.collected[Head(order)]>> \o CollectedAnswers(entry, Tail(order))

RECURSIVE CombinedCandidates(_, _)
CombinedCandidates(entry, order) ==
    IF order = <<>> THEN <<>>
    ELSE (IF Len(entry.collectedCandidates[Head(order)]) > 0
          THEN <<[user_id |-> Head(order),
                  candidates |-> entry.collectedCandidates[Head(order)]]>>
          ELSE <<>>) \o CombinedCandidates(entry, Tail(order))

HaveAll(entry) == \A u \in entry.expected : u \in SeqToSet(entry.order)

NotFlushed == [n |-> 0, key |-> NoKey, joiner |-> NoClient]

(* variant of flushWaitingAnswers: a flush that leaves the deadline timer pending *)
flushKeepTimer(st, cs, joinerKey) ==
    IF joinerKey \notin DOMAIN st.wa THEN st
    ELSE LET entry == st.wa[joinerKey]
             payload == [answers |-> CollectedAnswers(entry, entry.order),
                         candidates |-> CombinedCandidates(entry, entry.order)]
             o2 == sendToClient(cs, st.o, entry.joinerClientId, "answer",
                                At("flush", joinerKey, entry.rec), payload)
         IN [st EXCEPT
               !.o = o2,
               !.wa = [k \in DOMAIN st.wa \ {joinerKey} |-> st.wa[k]],
               !.fl = [st.fl EXCEPT ![entry.sid] =
                         [n |-> IF @.n < 2 THEN @.n + 1 ELSE 2, key |-> joinerKey,
                          joiner |-> entry.joinerClientId]]]

(* The handlers thread the mutable globals through a record:                *)
(*   wa = waitingAnswers, tm = timers, mt = meetings, o = frames written,   *)
(*   fl = flushLog (history: how often each session was flushed).           *)
flushWaitingAnswers(st, cs, joinerKey) ==
    IF joinerKey \notin DOMAIN st.wa THEN st
    ELSE LET entry == st.wa[joinerKey]
             payload == [answers |-> CollectedAnswers(entry, entry.order),
                         candidates |-> CombinedCandidates(entry, entry.order)]
             o2 == sendToClient(cs, st.o, entry.joinerClientId, "answer",
                                At("flush", joinerKey, entry.rec), payload)
         IN [st EXCEPT
               !.tm = IF entry.timer # 0 THEN RemoveTimer(st.tm, entry.timer) ELSE st.tm,
               !.o = o2,
               !.wa = [k \in DOMAIN st.wa \ {joinerKey} |-> st.wa[k]],
               !.fl = [st.fl EXCEPT ![entry.sid] =
                         [n |-> IF @.n < 2 THEN @.n + 1 ELSE 2, key |-> joinerKey,
                          joiner |-> entry.joinerClientId]]]

(* ------------------------------ handlers ------------------------------- *)

(* handleMessage: boundUser = meta.userId || data.from || null *)
BoundUser(ms, clientId, dataFrom) ==
    IF getMeta(ms, clientId).userId # NULL THEN getMeta(ms, clientId).userId ELSE dataFrom

EmptyMeeting == [participants |-> {}, sdps |-> EmptyMap, iceCandidates |-> EmptyMap]

Targets(offers) == SeqToSet(offers)

(* second loop of handleOffer: forward each offer, drop offline targets from *)
(* the expected set, add every target to the meeting's participants         *)
RECURSIVE ForwardOffers(_, _, _, _, _, _)
ForwardOffers(st, cs, u2c, offers, meetingId, joinerKey) ==
    IF offers = <<>> THEN st
    ELSE LET target == Head(offers)
             targetClientId == getClientIdByUser(u2c, target)
             payload == [offers |-> <<target>>, meeting_id |-> meetingId]
             st1 == IF targetClientId # NoClient
                    THEN [st EXCEPT !.o = sendToClient(cs, st.o, targetClientId,
                                                       "offer", Plain("forward"), payload)]
                    ELSE IF meetingId # NULL /\ joinerKey \in DOMAIN st.wa
                         THEN [st EXCEPT !.wa[joinerKey].expected = @ \ {target}]
                         ELSE st
             mt0 == IF meetingId \in DOMAIN st1.mt THEN st1.mt
                    ELSE Put(st1.mt, meetingId, EmptyMeeting)
             st2 == IF meetingId # NULL
                    THEN [st1 EXCEPT !.mt =
                            [mt0 EXCEPT ![meetingId].participants = @ \cup {target}]]
                    ELSE st1
         IN ForwardOffers(st2, cs, u2c, Tail(offers), meetingId, joinerKey)

(* variant of OpenSession: a session that expects the meeting's participants minus the joiner *)
OpenSessionFromMeeting(st, sid, meetingId, fromUser, clientId, targets) ==
    LET joinerKey == JoinerKey(meetingId, fromUser)
        present == IF meetingId \in DOMAIN st.mt
                   THEN st.mt[meetingId].participants \ {fromUser} ELSE {}
    IN [st EXCEPT
          !.wa = Put(st.wa, joinerKey, NewEntry(sid, present, clientId)),
          !.tm = Append(st.tm, [id |-> sid, key |-> joinerKey])]

(* waitingAnswers[joinerKey] = {...}; timer = setTimeout(flush, 3000) *)
OpenSession(st, sid, meetingId, fromUser, clientId, targets) ==
    LET joinerKey == JoinerKey(meetingId, fromUser)
    IN [st EXCEPT
          !.wa = Put(st.wa, joinerKey, NewEntry(sid, targets, clientId)),
          !.tm = Append(st.tm, [id |-> sid, key |-> joinerKey])]

handleOffer(st, cs, u2c, sid, clientId, fromUser, meetingId, offers) ==
    IF fromUser = NULL
    THEN [st EXCEPT !.o = ErrorTo(cs, st.o, clientId, "Must register to send offers")]
    ELSE IF Len(offers) = 0
    THEN [st EXCEPT !.o = ErrorTo(cs, st.o, clientId, "offers array required")]
    ELSE LET joinerKey == JoinerKey(meetingId, fromUser)
             st1 == IF meetingId # NULL
                    THEN OpenSession(st, sid, meetingId, fromUser, clientId, Targets(offers))
                    ELSE st
             st2 == ForwardOffers(st1, cs, u2c, offers, meetingId, joinerKey)
         IN [st2 EXCEPT !.o = sendToClient(cs, st2.o, clientId, "offer", Plain("ack"),
                                           [from |-> fromUser, status |-> "sent"])]

(* candidatesMap[g.user_id] = g.candidates || []; a later group wins *)
RECURSIVE CandidatesMap(_, _)
CandidatesMap(groups, acc) ==
    IF groups = <<>> THEN acc
    ELSE CandidatesMap(Tail(groups), Put(acc, Head(groups).user_id, Head(groups).candidates))

CandidatesOf(cmap, userId) == IF userId \in DOMAIN cmap THEN cmap[userId] ELSE <<>>

(* variant of Collect: a collect branch that drops the sender's candidates *)
CollectNoCandidates(st, cs, joinerKey, fromUser, ans, cmap) ==
    LET e0 == st.wa[joinerKey]
        e1 == [e0 EXCEPT !.order = PutOrder(@, fromUser),
                         !.collected = Put(@, fromUser, ans),
                         !.collectedCandidates = Put(@, fromUser, <<>>)]
        st1 == [st EXCEPT !.wa[joinerKey] = e1]
    IN IF HaveAll(e1) THEN flushWaitingAnswers(st1, cs, joinerKey) ELSE st1

(* collect branch of handleAnswer *)
Collect(st, cs, joinerKey, fromUser, ans, cmap) ==
    LET e0 == st.wa[joinerKey]
        e1 == [e0 EXCEPT !.order = PutOrder(@, fromUser),
                         !.collected = Put(@, fromUser, ans),
                         !.collectedCandidates = Put(@, fromUser, CandidatesOf(cmap, fromUser))]
        st1 == [st EXCEPT !.wa[joinerKey] = e1]
    IN IF HaveAll(e1) THEN flushWaitingAnswers(st1, cs, joinerKey) ELSE st1

(* forward branch of handleAnswer *)
ForwardAnswer(st, cs, u2c, clientId, meetingId, ans, candidateGroups) ==
    LET targetClientId == getClientIdByUser(u2c, ans.to)
    IN IF targetClientId # NoClient
       THEN [st EXCEPT !.o = sendToClient(cs, st.o, targetClientId, "answer",
                                At("forward", JoinerKey(meetingId, ans.to), EmptyMap),
                                [answers |-> <<ans>>, candidates |-> candidateGroups])]
       ELSE st

(* history: the answer and the candidates listed for its sender *)
RECURSIVE GroupOf(_, _)
GroupOf(groups, userId) ==
    IF groups = <<>> THEN <<>>
    ELSE IF groups[Len(groups)].user_id = userId THEN groups[Len(groups)].candidates
    ELSE GroupOf(SubSeq(groups, 1, Len(groups) - 1), userId)

Handed(st, joinerKey, fromUser, ans, candidateGroups) ==
    [st EXCEPT !.wa[joinerKey].rec =
        Put(@, fromUser, [ans |-> ans, cands |-> GroupOf(candidateGroups, fromUser)])]

RECURSIVE AnswerLoop(_, _, _, _, _, _, _, _)
AnswerLoop(st, cs, u2c, clientId, fromUser, meetingId, answers, candidateGroups) ==
    IF answers = <<>> THEN st
    ELSE LET ans == Head(answers)
             joinerKey == JoinerKey(meetingId, ans.to)
             st1 == IF meetingId # NULL /\ joinerKey \in DOMAIN st.wa
                    THEN Collect(Handed(st, joinerKey, fromUser, ans, candidateGroups),
                                 cs, joinerKey, fromUser, ans,
                                 CandidatesMap(candidateGroups, EmptyMap))
                    ELSE ForwardAnswer(st, cs, u2c, clientId, meetingId, ans, candidateGroups)
         IN AnswerLoop(st1, cs, u2c, clientId, fromUser, meetingId, Tail(answers),
                       candidateGroups)

handleAnswer(st, cs, u2c, clientId, fromUser, meetingId, answers, candidateGroups) ==
    IF fromUser = NULL
    THEN [st EXCEPT !.o = ErrorTo(cs, st.o, clientId, "Must register to send answers")]
    ELSE IF Len(answers) = 0
    THEN [st EXCEPT !.o = ErrorTo(cs, st.o, clientId, "answers array required")]
    ELSE LET st1 == AnswerLoop(st, cs, u2c, clientId, fromUser, meetingId, answers,
                               candidateGroups)
         IN [st1 EXCEPT !.o = sendToClient(cs, st1.o, clientId, "answer", Plain("ack"),
                                           [from |-> fromUser, status |-> "received"])]

(* broadcastToMeeting: listClients() is in insertion (= clientId) order *)
RECURSIVE broadcastFrom(_, _, _, _, _, _, _, _)
broadcastFrom(i, cs, ms, o, meetingId, excludeClientId, type, data) ==
    IF i > MaxConns + 1 THEN o
    ELSE broadcastFrom(i + 1, cs, ms,
            IF i \in cs /\ i # excludeClientId /\ getMeta(ms, i).meetingId = meetingId
            THEN sendToClient(cs, o, i, type, Plain("broadcast"), data)
            ELSE o,
            meetingId, excludeClientId, type, data)

(* the same loop without `if (clientId === excludeClientId) return` *)
broadcastToAll(cs, ms, o, meetingId, excludeClientId, type, data) ==
    broadcastFrom(1, cs, ms, o, meetingId, NoClient, type, data)

broadcastToMeeting(cs, ms, o, meetingId, excludeClientId, type, data) ==
    broadcastFrom(1, cs, ms, o, meetingId, excludeClientId, type, data)

Without(f, key) == [k \in DOMAIN f \ {key} |-> f[k]]              \* delete f[key]

removeUserFromMeeting(st, cs, ms, userId, meetingId) ==
    IF meetingId \notin DOMAIN st.mt THEN st
    ELSE LET m1 == [participants |-> st.mt[meetingId].participants \ {userId},
                    sdps |-> Without(st.mt[meetingId].sdps, userId),
                    iceCandidates |-> Without(st.mt[meetingId].iceCandidates, userId)]
             o1 == broadcastToMeeting(cs, ms, st.o, meetingId, NoClient,
                                      "participant_left", [from |-> userId])
             o2 == broadcastToMeeting(cs, ms, o1, meetingId, NoClient, "ice_candidate",
                                      [meeting_id |-> meetingId, ice_map |-> m1.iceCandidates])
         IN [st EXCEPT !.mt[meetingId] = m1, !.o = o2]

handleJoinRequest(st, cs, clientId, fromUser, meetingId) ==
    IF fromUser = NULL
    THEN [st EXCEPT !.o = ErrorTo(cs, st.o, clientId, "Must register before join_request")]
    ELSE IF meetingId = NULL
    THEN [st EXCEPT !.o = ErrorTo(cs, st.o, clientId, "join_request requires meeting_id")]
    ELSE LET mt1 == IF meetingId \in DOMAIN st.mt THEN st.mt
                    ELSE Put(st.mt, meetingId, EmptyMeeting)
         IN [st EXCEPT !.mt = mt1,
                       !.o = sendToClient(cs, st.o, clientId, "participants", Plain("reply"),
                                [meeting_id |-> meetingId,
                                 participants |-> mt1[meetingId].participants])]

IceOf(meeting, userId) ==
    IF userId \in DOMAIN meeting.iceCandidates THEN meeting.iceCandidates[userId] ELSE <<>>

(* handleIceCandidate: forward to data.to, else store under the meeting and *)
(* broadcast the meeting's ice map                                          *)
handleIceCandidate(st, cs, ms, u2c, clientId, fromUser, toUser, meetingId, candidate) ==
    IF fromUser = NULL
    THEN [st EXCEPT !.o = ErrorTo(cs, st.o, clientId, "must register first")]
    ELSE IF candidate = NULL
    THEN [st EXCEPT !.o = ErrorTo(cs, st.o, clientId, "candidate missing")]
    ELSE IF toUser # NULL
    THEN LET targetClientId == getClientIdByUser(u2c, toUser)
         IN IF targetClientId = NoClient
            THEN [st EXCEPT !.o = sendToClient(cs, st.o, clientId, "error", Plain("reply"),
                                               [message |-> "target offline"])]
            ELSE [st EXCEPT !.o = sendToClient(cs, st.o, targetClientId, "ice_candidate",
                                     Plain("forward"),
                                     [from |-> fromUser, to |-> toUser,
                                      candidate |-> candidate])]
    ELSE IF meetingId # NULL
    THEN LET mt0 == IF meetingId \in DOMAIN st.mt THEN st.mt
                    ELSE Put(st.mt, meetingId, EmptyMeeting)
             map == Put(mt0[meetingId].iceCandidates, fromUser,
                        Append(IceOf(mt0[meetingId], fromUser), candidate))
             mt1 == [mt0 EXCEPT ![meetingId].iceCandidates = map]
         IN [st EXCEPT !.mt = mt1,
                       !.o = broadcastToMeeting(cs, ms, st.o, meetingId, NoClient,
                                "ice_candidate", [meeting_id |-> meetingId, ice_map |-> map])]
    ELSE [st EXCEPT !.o = ErrorTo(cs, st.o, clientId,
                                  "either to or meeting_id required for ice_candidate")]

(* ------------------------------ state ---------------------------------- *)

NoFrame == [type |-> "none"]

Globals == [wa |-> waitingAnswers, tm |-> timers, mt |-> meetings, o |-> <<>>,
            fl |-> flushLog]

Commit(st) ==
    /\ waitingAnswers' = st.wa
    /\ timers' = st.tm
    /\ meetings' = st.mt
    /\ flushLog' = st.fl
    /\ out' = st.o

Init ==
    /\ clients = {}
    /\ metas = [c \in {} |-> EmptyMeta]
    /\ userToClient = [u \in Users |-> NoClient]
    /\ nextClient = 1
    /\ meetings = [m \in {} |-> EmptyMeeting]
    /\ waitingAnswers = [k \in {} |-> NULL]
    /\ timers = <<>>
    /\ nextSid = 1
    /\ flushLog = [s \in SessionIds |-> NotFlushed]
    /\ received = 0
    /\ directIce = EmptyMap
    /\ inp = NoFrame
    /\ out = <<>>
    /\ queue = [c \in ClientIds |-> <<>>]
    /\ wire = [c \in ClientIds |-> <<>>]
    /\ quiet = [c \in ClientIds |-> 0]
    /\ escaped = FALSE

(* inp and out observe one step: the frame a handler was given and the     *)
(* frames it wrote. No handler reads them, so taking the next step only    *)
(* once they have left the process (Idle, after Drain) restricts no state  *)
(* of the program.                                                         *)
Idle == inp = NoFrame /\ out = <<>>

(* ws.on('message'): a frame arrives on an open connection; boundUser is    *)
(* what handleMessage computes from the connection and data.from            *)
Receive(clientId, type, dataFrom, data) ==
    /\ clientId \in clients
    /\ received < MaxMsgs
    /\ received' = received + 1
    /\ inp' = [type |-> type, clientId |-> clientId,
               boundUser |-> BoundUser(metas, clientId, dataFrom), data |-> data]
    /\ UNCHANGED auxVars

(* wss.on('connection'): addSocket *)
Connect ==
    /\ nextClient <= MaxConns
    /\ clients' = clients \cup {nextClient}
    /\ metas' = Put(metas, nextClient, EmptyMeta)
    /\ nextClient' = nextClient + 1
    /\ out' = <<>>
    /\ inp' = NoFrame
    /\ UNCHANGED <<userToClient, meetings, waitingAnswers, timers, nextSid, flushLog,
                   received>>
    /\ UNCHANGED directIce
    /\ UNCHANGED auxVars

(* message {type:'register', data:{from}} *)
Register(clientId, dataFrom) ==
    /\ Receive(clientId, "register", dataFrom, [from |-> dataFrom])
    /\ IF dataFrom = NULL
       THEN /\ out' = ErrorTo(clients, <<>>, clientId, "register requires from (userId)")
            /\ UNCHANGED <<metas, userToClient>>
       ELSE /\ metas' = bindUserMetas(metas, clientId, dataFrom)
            /\ userToClient' = bindUserMap(userToClient, clientId, dataFrom)
            /\ out' = sendToClient(clients, <<>>, clientId, "registered", Plain("reply"),
                                   [from |-> dataFrom])
    /\ UNCHANGED <<clients, nextClient, meetings, waitingAnswers, timers, nextSid,
                   flushLog>>
    /\ UNCHANGED directIce

(* message {type:'join_request', data:{from?, meeting_id}} *)
JoinRequest(clientId, dataFrom, meetingId) ==
    /\ Receive(clientId, "join_request", dataFrom, [meeting_id |-> meetingId])
    /\ Commit(handleJoinRequest(Globals, clients, clientId,
                                BoundUser(metas, clientId, dataFrom), meetingId))
    /\ UNCHANGED <<registryVars, nextSid>>
    /\ UNCHANGED directIce

(* message {type:'offer', data:{from?, meeting_id?, offers}} *)
Offer(clientId, dataFrom, meetingId, offers) ==
    /\ Receive(clientId, "offer", dataFrom, [meeting_id |-> meetingId, offers |-> offers])
    /\ meetingId # NULL => nextSid <= MaxSessions
    /\ LET fromUser == BoundUser(metas, clientId, dataFrom)
           opens == fromUser # NULL /\ Len(offers) > 0 /\ meetingId # NULL
       IN /\ Commit(handleOffer(Globals, clients, userToClient, nextSid, clientId,
                                fromUser, meetingId, offers))
          /\ nextSid' = IF opens THEN nextSid + 1 ELSE nextSid
    /\ UNCHANGED <<registryVars>>
    /\ UNCHANGED directIce

(* message {type:'answer', data:{from?, meeting_id?, answers, candidates}} *)
Answer(clientId, dataFrom, meetingId, answers, candidateGroups) ==
    /\ Receive(clientId, "answer", dataFrom,
               [meeting_id |-> meetingId, answers |-> answers, candidates |-> candidateGroups])
    /\ Commit(handleAnswer(Globals, clients, userToClient, clientId,
                           BoundUser(metas, clientId, dataFrom), meetingId, answers,
                           candidateGroups))
    /\ UNCHANGED <<registryVars, nextSid>>
    /\ UNCHANGED directIce

(* message {type:'ice_candidate', data:{from?, to?, meeting_id?, candidate}} *)
IceCandidate(clientId, dataFrom, toUser, meetingId, candidate) ==
    /\ Receive(clientId, "ice_candidate", dataFrom,
               [to |-> toUser, meeting_id |-> meetingId, candidate |-> candidate])
    /\ LET fromUser == BoundUser(metas, clientId, dataFrom)
       IN /\ (meetingId \in DOMAIN meetings /\ fromUser # NULL)
                 => Len(IceOf(meetings[meetingId], fromUser)) < MaxIce
          /\ Commit(handleIceCandidate(Globals, clients, metas, userToClient, clientId,
                                       fromUser, toUser, meetingId, candidate))
    /\ UNCHANGED <<registryVars, nextSid>>
    /\ UNCHANGED directIce

(* message {type:'leave', data:{from?, meeting_id?}} *)
Leave(clientId, dataFrom, dataMeeting) ==
    /\ Receive(clientId, "leave", dataFrom, [meeting_id |-> dataMeeting])
    /\ LET fromUser == BoundUser(metas, clientId, dataFrom)
           meetingId == IF getMeta(metas, clientId).meetingId # NULL
                        THEN getMeta(metas, clientId).meetingId ELSE dataMeeting
       IN IF fromUser = NULL
          THEN /\ Commit([Globals EXCEPT !.o = ErrorTo(clients, <<>>, clientId, "not in meeting")])
               /\ UNCHANGED metas
          ELSE IF meetingId = NULL
          THEN /\ Commit([Globals EXCEPT !.o = ErrorTo(clients, <<>>, clientId, "meetingId required")])
               /\ UNCHANGED metas
          ELSE LET st1 == removeUserFromMeeting(Globals, clients, metas, fromUser, meetingId)
               IN /\ metas' = bindMeeting(metas, clientId, NULL)
                  /\ Commit([st1 EXCEPT !.o = sendToClient(clients, st1.o, clientId, "leave",
                                                           Plain("reply"), [from |-> fromUser])])
    /\ UNCHANGED <<clients, userToClient, nextClient, nextSid>>
    /\ UNCHANGED directIce

(* ws.on('close'): handleClose *)
Close(clientId) ==
    /\ clientId \in clients
    /\ LET meta == getMeta(metas, clientId)
           st1 == IF meta.userId # NULL /\ meta.meetingId # NULL
                  THEN removeUserFromMeeting(Globals, clients \ {clientId}, metas,
                                             meta.userId, meta.meetingId)
                  ELSE Globals
       IN Commit(st1)
    /\ userToClient' = removeSocketMap(metas, userToClient, clientId)
    /\ metas' = removeSocketMetas(metas, clientId)
    /\ clients' = clients \ {clientId}
    /\ inp' = NoFrame
    /\ UNCHANGED <<nextClient, nextSid, received>>
    /\ UNCHANGED directIce
    /\ UNCHANGED auxVars

(* the oldest pending setTimeout callback runs: flushWaitingAnswers(joinerKey) *)
Deadline ==
    /\ timers # <<>>
    /\ LET t == Head(timers)
       IN Commit(flushWaitingAnswers([Globals EXCEPT !.tm = Tail(timers)], clients,
                                     t.key))
    /\ inp' = NoFrame
    /\ UNCHANGED <<registryVars, nextSid, received>>
    /\ UNCHANGED directIce
    /\ UNCHANGED auxVars

(* ws.send: the frames the last step wrote are on the wire and the handler *)
(* has returned to the event loop                                          *)
Drain ==
    /\ ~Idle
    /\ inp' = NoFrame
    /\ out' = <<>>
    /\ UNCHANGED <<registryVars, meetings, waitingAnswers, timers, nextSid, flushLog,
                   received>>
    /\ UNCHANGED directIce
    /\ UNCHANGED auxVars

(* data.from is read only while the connection has no bound user *)
DataFrom(clientId) ==
    IF getMeta(metas, clientId).userId # NULL THEN {NULL} ELSE Users \cup {NULL}
DataMeeting == Meetings \cup {NULL}

(* a handler that throws on its first checks reads no further field, so the *)
(* fields it never reads are left out of the frame                          *)
Unread(clientId, dataFrom, array, restAbsent) ==
    (BoundUser(metas, clientId, dataFrom) = NULL \/ Len(array) = 0) => restAbsent

(* handleIceCandidate reads data.to and data.meeting_id only after its two  *)
(* checks, and data.meeting_id only when data.to is absent                  *)
UnreadIce(clientId, dataFrom, toUser, meetingId, candidate) ==
    /\ (BoundUser(metas, clientId, dataFrom) = NULL) => candidate = NULL
    /\ candidate = NULL => toUser = NULL
    /\ (candidate = NULL \/ toUser # NULL) => meetingId = NULL

Next ==
    \/ Idle /\ Connect
    \/ Idle /\ \E c \in clients, u \in Users \cup {NULL} : Register(c, u)
    \/ Idle /\ \E c \in clients : \E u \in DataFrom(c), m \in DataMeeting :
          JoinRequest(c, u, m)
    \/ Idle /\ \E c \in clients : \E u \in DataFrom(c), m \in DataMeeting,
          os \in OfferInputs : Unread(c, u, os, m = NULL) /\ Offer(c, u, m, os)
    \/ Idle /\ \E c \in clients : \E u \in DataFrom(c), m \in DataMeeting,
          as \in AnswerInputs, g \in CandidateGroupInputs :
          Unread(c, u, as, m = NULL /\ g = <<>>) /\ Answer(c, u, m, as, g)
    \/ Idle /\ \E c \in clients : \E u \in DataFrom(c), t \in Users \cup {NULL},
          m \in DataMeeting, k \in Candidates \cup {NULL} :
          UnreadIce(c, u, t, m, k) /\ IceCandidate(c, u, t, m, k)
    \/ Idle /\ \E c \in clients : \E u \in DataFrom(c), m \in DataMeeting : Leave(c, u, m)
    \/ Idle /\ \E c \in clients : Close(c)
    \/ Idle /\ Deadline
    \/ Drain

Spec == Init /\ [][Next]_vars

(* ======================================================================= *)
(*                               properties                                *)
(* ======================================================================= *)

Opened == 1..(nextSid - 1)                       \* sessions created so far
OpenSids == {waitingAnswers[k].sid : k \in DOMAIN waitingAnswers}
PendingTimers == {timers[i].id : i \in 1..Len(timers)}
FramesOf(o) == {o[i] : i \in 1..Len(o)}
FlushFramesOf(o) == {f \in FramesOf(o) : f.site.at = "flush"}
ForwardedAnswersOf(o) == {f \in FramesOf(o) : f.site.at = "forward" /\ f.type = "answer"}
Frames == FramesOf(out)
FlushFrames == FlushFramesOf(out)
ForwardedAnswers == ForwardedAnswersOf(out)

(* C1: every aggregation session is flushed exactly once: never twice, and  *)
(* a session that is no longer in waitingAnswers left it through one flush  *)
(* (early completion or deadline), whatever the interleaving.               *)
C1_FlushedExactlyOnce ==
    \A s \in Opened :
        /\ flushLog[s].n <= 1
        /\ s \notin OpenSids => flushLog[s].n = 1

(* C2: every opened session is eventually flushed.  Finite form: once no    *)
(* deadline callback is pending any more, every session that was opened has *)
(* been flushed.                                                            *)
C2_EveryOpenedSessionFlushed ==
    timers = <<>> => \A s \in Opened : flushLog[s].n >= 1

(* a frame addressed to userId would be written to an open socket *)
HasLiveConnection(userId) == getClientIdByUser(userToClient, userId) \in clients

(* the session a step has opened: only a meeting offer takes a new number *)
NewEntries == {waitingAnswers'[k] : k \in {j \in DOMAIN waitingAnswers' :
                                                 waitingAnswers'[j].sid = nextSid}}

(* C3: a target of an offer fan-out that has no live connection is removed  *)
(* from the session's expected set at once: right after the offer handler   *)
(* every expected peer has a live connection.                               *)
C3_UnreachableRemovedAtOnce ==
    [][nextSid' # nextSid =>
          \A e \in NewEntries : \A t \in e.expected : HasLiveConnection(t)]_vars

(* the frame just handled is an answer message that passed the checks *)
AnswerHandled(frame) ==
    frame.type = "answer" /\ frame.boundUser # NULL /\ Len(frame.data.answers) > 0

(* C4: after the session of a key was flushed, an answer that arrives for   *)
(* the key is written as its own 'answer' frame to the joiner's connection: *)
(* the connection that opened the session, when it is still open and no     *)
(* other open connection carries the joiner's user id.                      *)
C4_LateAnswerReachesJoiner ==
    [][AnswerHandled(inp') =>
          \A i \in 1..Len(inp'.data.answers), s \in Opened :
              LET ans == inp'.data.answers[i]
                  key == JoinerKey(inp'.data.meeting_id, ans.to)
                  joiner == flushLog[s].joiner
              IN (/\ flushLog[s].n >= 1
                  /\ flushLog[s].key = key
                  /\ key \notin DOMAIN waitingAnswers
                  /\ joiner \in clients
                  /\ getMeta(metas, joiner).userId \in {ans.to, NULL}
                  /\ \A c \in clients \ {joiner} : getMeta(metas, c).userId # ans.to)
                 => \E f \in ForwardedAnswersOf(out') :
                        f.to = joiner /\ f.data.answers = <<ans>>]_vars

(* C4, the part that holds: an answer that arrives for a key with no open   *)
(* session (in particular after that key's session was flushed) is not      *)
(* aggregated: it is written as its own 'answer' frame to the connection    *)
(* the registry binds to the joiner, to no other connection, and no session *)
(* exists for the key afterwards.                                           *)
C4_LateAnswerForwardedDirectly ==
    [][AnswerHandled(inp') =>
          \A i \in 1..Len(inp'.data.answers) :
              LET ans == inp'.data.answers[i]
                  key == JoinerKey(inp'.data.meeting_id, ans.to)
                  direct == {f \in ForwardedAnswersOf(out') : f.site.key = key}
              IN key \notin DOMAIN waitingAnswers =>
                    /\ key \notin DOMAIN waitingAnswers'
                    /\ \A f \in FlushFramesOf(out') : f.site.key # key
                    /\ \A f \in direct : f.to = getClientIdByUser(userToClient, ans.to)
                    /\ HasLiveConnection(ans.to) =>
                          \E f \in direct :
                              f.data = [answers |-> <<ans>>,
                                        candidates |-> inp'.data.candidates]]_vars

(* an answer for a key whose session was flushed earlier has just been      *)
(* forwarded to the joiner's connection                                     *)
C4_Witness ==
    /\ AnswerHandled(inp)
    /\ \E s \in Opened, f \in ForwardedAnswers :
          /\ flushLog[s].n = 1
          /\ flushLog[s].key = f.site.key
          /\ f.site.key = JoinerKey(inp.data.meeting_id, inp.data.answers[1].to)
          /\ inp.data.meeting_id # NULL
          /\ f.to = getClientIdByUser(userToClient, inp.data.answers[1].to)
          /\ f.to # inp.clientId

(* C5: when the joiner's connection closes, its open session and deadline   *)
(* timer are discarded: no session is kept for a joiner connection that is  *)
(* closed, and no deadline is pending for one.                              *)
C5_ClosedJoinerSessionDiscarded ==
    /\ \A k \in DOMAIN waitingAnswers : waitingAnswers[k].joinerClientId \in clients
    /\ \A i \in 1..Len(timers) :
          timers[i].key \in DOMAIN waitingAnswers
              => waitingAnswers[timers[i].key].joinerClientId \in clients

(* C6: once a session has been flushed its deadline timer is not pending:   *)
(* an early flush cancels the timer in the same step, so no deadline        *)
(* callback of that session can run afterwards.                             *)
C6_FlushCancelsTimer ==
    \A s \in Opened : flushLog[s].n >= 1 => s \notin PendingTimers

(* an answer has just completed a session and flushed it early *)
C6_Witness ==
    /\ AnswerHandled(inp)
    /\ \E s \in Opened, f \in FlushFrames :
          /\ flushLog[s].n = 1
          /\ flushLog[s].key = f.site.key
          /\ s \notin PendingTimers
          /\ f.site.key \notin DOMAIN waitingAnswers

ParticipantsOf(meetingId) ==
    IF meetingId \in DOMAIN meetings THEN meetings[meetingId].participants ELSE {}

C8_FlushCarriesWhatWasRecorded ==
    \A f \in FlushFrames :
        LET rec == f.site.rec
            answers == f.data.answers
            groups == f.data.candidates
        IN /\ f.type = "answer"
           /\ Len(answers) = Cardinality(DOMAIN rec)
           /\ \A u \in DOMAIN rec : \E i \in 1..Len(answers) : answers[i] = rec[u].ans
           /\ \A i \in 1..Len(answers) : \E u \in DOMAIN rec : answers[i] = rec[u].ans
           /\ \A u \in DOMAIN rec :
                 rec[u].cands # <<>> =>
                    \E i \in 1..Len(groups) :
                        groups[i] = [user_id |-> u, candidates |-> rec[u].cands]
           /\ \A i \in 1..Len(groups) :
                 /\ groups[i].user_id \in DOMAIN rec
                 /\ groups[i].candidates = rec[groups[i].user_id].cands
           /\ \A i, j \in 1..Len(groups) : groups[i].user_id = groups[j].user_id => i = j

(* a flush has just delivered the answers of two peers, one of them with   *)
(* candidates and one without                                              *)
C8_Witness ==
    \E f \in FlushFrames :
        /\ Len(f.data.answers) = 2
        /\ Len(f.data.candidates) = 1
        /\ f.to \in clients

(* C9: a register message binds the user to the registering connection      *)
(* (latest wins) and closes nothing; no other message changes a binding, so *)
(* after any sequence of register messages getClientIdByUser(u) is the      *)
(* connection that registered u last, earlier ones staying open.            *)
C9_LatestRegisterWins ==
    [][/\ (inp'.type = "register" /\ inp'.data.from # NULL) =>
             /\ getClientIdByUser(userToClient', inp'.data.from) = inp'.clientId
             /\ \A u \in Users \ {inp'.data.from} : userToClient'[u] = userToClient[u]
             /\ clients' = clients
       /\ inp'.type \notin {"register", "none"} => userToClient' = userToClient]_vars

(* two open connections registered the same user; the later one owns it *)
C9_Witness ==
    /\ inp.type = "register"
    /\ inp.clientId = 2
    /\ clients = {1, 2}
    /\ metas[1].userId = inp.data.from
    /\ metas[2].userId = inp.data.from
    /\ getClientIdByUser(userToClient, inp.data.from) = 2

(* C10: closing connection c removes a user binding only if it points to c: *)
(* a binding that points to a connection which stays open is left as it is. *)
C10_CloseKeepsOthersBindings ==
    [][(clients' # clients /\ clients' \subseteq clients) =>
          \A u \in Users :
              getClientIdByUser(userToClient, u) \in clients'
                  => userToClient'[u] = userToClient[u]]_vars

(* ======================================================================= *)
(*        services/socketService.js driven through its own interface       *)
(* ======================================================================= *)

(* the call the last step made on the service (history) *)
Call(name, clientId, arg) == [type |-> name, clientId |-> clientId, arg |-> arg]

(* removeSocket(clientId), for any id: open, closed before, or never issued *)
removeSocket(clientId) ==
    /\ userToClient' = removeSocketMap(metas, userToClient, clientId)
    /\ metas' = removeSocketMetas(metas, clientId)
    /\ clients' = clients \ {clientId}
    /\ inp' = Call("removeSocket", clientId, IF clientId \in clients THEN "open" ELSE "absent")
    /\ UNCHANGED <<nextClient, meetings, waitingAnswers, timers, nextSid, flushLog,
                   received, out>>
    /\ UNCHANGED directIce
    /\ UNCHANGED auxVars

(* bindUser(clientId, userId), as the handlers call it: on an open connection *)
bindUser(clientId, userId) ==
    /\ clientId \in clients
    /\ metas' = bindUserMetas(metas, clientId, userId)
    /\ userToClient' = bindUserMap(userToClient, clientId, userId)
    /\ inp' = Call("bindUser", clientId, userId)
    /\ UNCHANGED <<clients, nextClient, meetings, waitingAnswers, timers, nextSid,
                   flushLog, received, out>>
    /\ UNCHANGED directIce
    /\ UNCHANGED auxVars

(* bindMeeting(clientId, meetingId) on an open connection *)
bindMeetingCall(clientId, meetingId) ==
    /\ clientId \in clients
    /\ metas' = bindMeeting(metas, clientId, meetingId)
    /\ inp' = Call("bindMeeting", clientId, meetingId)
    /\ UNCHANGED <<clients, userToClient, nextClient, meetings, waitingAnswers, timers,
                   nextSid, flushLog, received, out>>
    /\ UNCHANGED directIce
    /\ UNCHANGED auxVars

NextService ==
    \/ Idle /\ Connect
    \/ Idle /\ \E c \in ClientIds : removeSocket(c)
    \/ Idle /\ \E c \in clients, u \in Users : bindUser(c, u)
    \/ Idle /\ \E c \in clients, m \in Meetings \cup {NULL} : bindMeetingCall(c, m)
    \/ Drain

SpecService == Init /\ [][NextService]_vars

(* C11: removeSocket is idempotent: called for an id that is not connected  *)
(* (never issued, or removed before) it changes nothing in the connection,  *)
(* metadata or user-binding maps, and in any state a second call for the    *)
(* same id would change nothing the first call left.                        *)
C11_RemoveSocketIdempotent ==
    [][inp'.type = "removeSocket" =>
          /\ inp'.clientId \notin clients
                => UNCHANGED <<clients, metas, userToClient>>
          /\ removeSocketMap(metas', userToClient', inp'.clientId) = userToClient'
          /\ removeSocketMetas(metas', inp'.clientId) = metas'
          /\ inp'.clientId \notin clients']_vars

(* removeSocket was just called a second time for a connection that had a   *)
(* bound user, while another connection and a user binding exist           *)
C11_Witness ==
    /\ inp.type = "removeSocket"
    /\ inp.arg = "absent"
    /\ inp.clientId < nextClient
    /\ clients # {}
    /\ \E u \in Users : userToClient[u] # NoClient

(* ======================================================================= *)
(*  ws/socketServer.js, lines 1-332: the enhanced server.  Meetings are     *)
(*  joined with 'join', SDP and ICE go to a meeting or, with targetUserId,   *)
(*  to one user.  Names already used above carry the suffix Enh.            *)
(* ======================================================================= *)

MaxFrames == 5         \* frames the clients send to the enhanced server in one run

SdpKinds == {"offer", "answer"}
Wire(kind) == IF kind = "offer" THEN "webrtc-offer" ELSE "webrtc-answer"

(* what a handler of the enhanced server reads and writes *)
Enh == [mt |-> meetings, di |-> directIce, ms |-> metas, u2c |-> userToClient, o |-> <<>>]

CommitEnh(st) ==
    /\ meetings' = st.mt
    /\ directIce' = st.di
    /\ metas' = st.ms
    /\ userToClient' = st.u2c
    /\ out' = st.o

(* throw new Error(text), caught by handleMessage *)
Throw(st, cs, clientId, text) == [st EXCEPT !.o = ErrorTo(cs, st.o, clientId, text)]

(* sendToClient(clientId, {type:'error', ...}) followed by return *)
ReplyError(st, cs, clientId, text) ==
    [st EXCEPT !.o = sendToClient(cs, st.o, clientId, "error", Plain("reply"),
                                  [message |-> text])]

broadcastIceMap(st, cs, meetingId) ==
    IF meetingId \notin DOMAIN st.mt THEN st
    ELSE [st EXCEPT !.o = broadcastToMeeting(cs, st.ms, st.o, meetingId, NoClient, "ice-sync",
                              [meetingId |-> meetingId,
                               iceMap |-> st.mt[meetingId].iceCandidates])]

addIceCandidate(st, userId, meetingId, candidate) ==
    IF meetingId \notin DOMAIN st.mt THEN st
    ELSE [st EXCEPT !.mt[meetingId].iceCandidates =
                        Put(@, userId, Append(IceOf(st.mt[meetingId], userId), candidate))]

removeUserFromMeetingEnh(st, cs, userId, meetingId) ==
    IF meetingId \notin DOMAIN st.mt THEN st
    ELSE LET m1 == [participants |-> st.mt[meetingId].participants \ {userId},
                    sdps |-> Without(st.mt[meetingId].sdps, userId),
                    iceCandidates |-> Without(st.mt[meetingId].iceCandidates, userId)]
             o1 == broadcastToMeeting(cs, st.ms, st.o, meetingId, NoClient,
                                      "participant-left", [userId |-> userId])
         IN broadcastIceMap([st EXCEPT !.mt[meetingId] = m1, !.o = o1], cs, meetingId)

handleRegister(st, cs, clientId, userId) ==
    IF userId = NULL THEN Throw(st, cs, clientId, "userId required")
    ELSE [st EXCEPT !.ms = bindUserMetas(st.ms, clientId, userId),
                    !.u2c = bindUserMap(st.u2c, clientId, userId),
                    !.o = sendToClient(cs, st.o, clientId, "registered", Plain("reply"),
                                       [userId |-> userId])]

handleJoin(st, cs, userId, clientId, meetingId) ==
    IF userId = NULL THEN Throw(st, cs, clientId, "Must register first")
    ELSE IF meetingId = NULL THEN Throw(st, cs, clientId, "meetingId required")
    ELSE LET ms1 == bindMeeting(st.ms, clientId, meetingId)
             mt0 == IF meetingId \in DOMAIN st.mt THEN st.mt
                    ELSE Put(st.mt, meetingId, EmptyMeeting)
             mt1 == [mt0 EXCEPT ![meetingId].participants = @ \cup {userId}]
             o1 == broadcastToMeeting(cs, ms1, st.o, meetingId, NoClient,
                                      "participant-joined",
                                      [userId |-> userId, meetingId |-> meetingId])
             o2 == sendToClient(cs, o1, clientId, "meeting-state", Plain("reply"),
                                [meetingId |-> meetingId,
                                 participants |-> mt1[meetingId].participants,
                                 iceMap |-> mt1[meetingId].iceCandidates,
                                 sdpMap |-> mt1[meetingId].sdps])
         IN broadcastIceMap([st EXCEPT !.ms = ms1, !.mt = mt1, !.o = o2], cs, meetingId)

handleLeave(st, cs, userId, meetingId, clientId) ==
    IF userId = NULL \/ meetingId = NULL THEN Throw(st, cs, clientId, "Not in a meeting")
    ELSE LET st1 == removeUserFromMeetingEnh(st, cs, userId, meetingId)
         IN [st1 EXCEPT !.ms = bindMeeting(st1.ms, clientId, NULL)]

(* [userId, targetUserId].sort().join('-'): Array.prototype.sort orders the *)
(* two ids as strings                                                       *)
SortRank(userId) == IF userId = "u1" THEN 1 ELSE 2
DirectKey(a, b) == IF SortRank(a) <= SortRank(b) THEN <<a, b>> ELSE <<b, a>>

DirectIceOf(di, key, userId) ==
    IF key \in DOMAIN di /\ userId \in DOMAIN di[key] THEN di[key][userId] ELSE <<>>

(* the connection a direct message would go to: bound and with metadata *)
TargetOnline(st, targetUserId) ==
    /\ getClientIdByUser(st.u2c, targetUserId) # NoClient
    /\ getClientIdByUser(st.u2c, targetUserId) \in DOMAIN st.ms

handleIceCandidateEnh(st, cs, userId, meetingId, targetUserId, candidate, clientId) ==
    IF userId = NULL THEN Throw(st, cs, clientId, "Must be registered first")
    ELSE IF candidate = NULL THEN Throw(st, cs, clientId, "Candidate data required")
    ELSE IF targetUserId # NULL
    THEN IF ~TargetOnline(st, targetUserId)
         THEN ReplyError(st, cs, clientId, "Target not online")
         ELSE LET key == DirectKey(userId, targetUserId)
                  byUser == IF key \in DOMAIN st.di THEN st.di[key] ELSE EmptyMap
                  list == Append(DirectIceOf(st.di, key, userId), candidate)
              IN [st EXCEPT !.di = Put(st.di, key, Put(byUser, userId, list)),
                            !.o = sendToClient(cs, st.o,
                                      getClientIdByUser(st.u2c, targetUserId),
                                      "webrtc-ice-candidate", Plain("forward"),
                                      [fromId |-> userId, candidate |-> candidate])]
    ELSE IF meetingId # NULL
    THEN broadcastIceMap(addIceCandidate(st, userId, meetingId, candidate), cs, meetingId)
    ELSE Throw(st, cs, clientId,
               "Either targetUserId or meetingId must be provided for ICE candidate")

(* variant of handleSdpMessage: a direct message is forwarded whatever      *)
(* meeting the target is bound to                                          *)
handleSdpMessageNoBusy(st, cs, type, userId, meetingId, targetUserId, sdp, sdpType, clientId) ==
    IF sdp = NULL \/ sdpType = NULL
    THEN Throw(st, cs, clientId, "Both sdp and sdpType are required")
    ELSE IF targetUserId # NULL
    THEN LET targetClientId == getClientIdByUser(st.u2c, targetUserId)
         IN IF ~TargetOnline(st, targetUserId)
            THEN ReplyError(st, cs, clientId, "Target not online")
            ELSE [st EXCEPT !.o = sendToClient(cs, st.o, targetClientId, type,
                                      Plain("forward"),
                                      [fromId |-> userId, sdp |-> sdp, sdpType |-> sdpType])]
    ELSE IF meetingId # NULL
    THEN IF meetingId \notin DOMAIN st.mt THEN st
         ELSE [st EXCEPT !.mt[meetingId].sdps =
                             Put(@, userId, [sdp |-> sdp, sdpType |-> sdpType]),
                         !.o = broadcastToMeeting(cs, st.ms, st.o, meetingId, clientId, type,
                                   [userId |-> userId, sdp |-> sdp, sdpType |-> sdpType])]
    ELSE Throw(st, cs, clientId,
               "Either targetUserId or meetingId must be provided for SDP message")

handleSdpMessage(st, cs, type, userId, meetingId, targetUserId, sdp, sdpType, clientId) ==
    IF sdp = NULL \/ sdpType = NULL
    THEN Throw(st, cs, clientId, "Both sdp and sdpType are required")
    ELSE IF targetUserId # NULL
    THEN LET targetClientId == getClientIdByUser(st.u2c, targetUserId)
         IN IF ~TargetOnline(st, targetUserId)
            THEN ReplyError(st, cs, clientId, "Target not online")
            ELSE IF /\ st.ms[targetClientId].meetingId # NULL
                    /\ st.ms[targetClientId].meetingId # meetingId
            THEN ReplyError(st, cs, clientId, "User is busy")
            ELSE [st EXCEPT !.o = sendToClient(cs, st.o, targetClientId, type,
                                      Plain("forward"),
                                      [fromId |-> userId, sdp |-> sdp, sdpType |-> sdpType])]
    ELSE IF meetingId # NULL
    THEN IF meetingId \notin DOMAIN st.mt THEN st
         ELSE [st EXCEPT !.mt[meetingId].sdps =
                             Put(@, userId, [sdp |-> sdp, sdpType |-> sdpType]),
                         !.o = broadcastToMeeting(cs, st.ms, st.o, meetingId, clientId, type,
                                   [userId |-> userId, sdp |-> sdp, sdpType |-> sdpType])]
    ELSE Throw(st, cs, clientId,
               "Either targetUserId or meetingId must be provided for SDP message")

(* ws.on('message'): handleMessage reads userId and meetingId from the      *)
(* connection's metadata                                                    *)
ReceiveEnh(clientId, type, data) ==
    /\ clientId \in clients
    /\ received < MaxFrames
    /\ received' = received + 1
    /\ inp' = [type |-> type, clientId |-> clientId,
               userId |-> getMeta(metas, clientId).userId,
               meetingId |-> getMeta(metas, clientId).meetingId, data |-> data]
    /\ UNCHANGED <<clients, nextClient, waitingAnswers, timers, nextSid, flushLog>>
    /\ quiet' = [quiet EXCEPT ![clientId] = 0]
    /\ UNCHANGED <<queue, wire, escaped>>

(* message {type:'register', data:{userId}} *)
RegisterEnh(clientId, userId) ==
    /\ ReceiveEnh(clientId, "register", [userId |-> userId])
    /\ CommitEnh(handleRegister(Enh, clients, clientId, userId))

(* message {type:'join', data:{meetingId}} *)
Join(clientId, meetingId) ==
    /\ ReceiveEnh(clientId, "join", [meetingId |-> meetingId])
    /\ CommitEnh(handleJoin(Enh, clients, getMeta(metas, clientId).userId, clientId,
                            meetingId))

(* message {type:'leave'} *)
LeaveEnh(clientId) ==
    /\ ReceiveEnh(clientId, "leave", EmptyMap)
    /\ CommitEnh(handleLeave(Enh, clients, getMeta(metas, clientId).userId,
                             getMeta(metas, clientId).meetingId, clientId))

(* message {type:'webrtc-ice-candidate', data:{targetUserId?, candidate}} *)
IceEnh(clientId, targetUserId, candidate) ==
    /\ ReceiveEnh(clientId, "webrtc-ice-candidate",
                  [targetUserId |-> targetUserId, candidate |-> candidate])
    /\ LET meta == getMeta(metas, clientId)
       IN /\ (meta.userId # NULL /\ targetUserId # NULL) =>
                 Len(DirectIceOf(directIce, DirectKey(meta.userId, targetUserId),
                                 meta.userId)) < MaxIce
          /\ (meta.userId # NULL /\ meta.meetingId \in DOMAIN meetings) =>
                 Len(IceOf(meetings[meta.meetingId], meta.userId)) < MaxIce
          /\ CommitEnh(handleIceCandidateEnh(Enh, clients, meta.userId, meta.meetingId,
                                             targetUserId, candidate, clientId))

(* message {type:'webrtc-offer'|'webrtc-answer', data:{targetUserId?, sdp, sdpType}} *)
Sdp(clientId, kind, targetUserId, sdp, sdpType) ==
    /\ ReceiveEnh(clientId, Wire(kind),
                  [targetUserId |-> targetUserId, sdp |-> sdp, sdpType |-> sdpType])
    /\ CommitEnh(handleSdpMessage(Enh, clients, Wire(kind), getMeta(metas, clientId).userId,
                                  getMeta(metas, clientId).meetingId, targetUserId, sdp,
                                  sdpType, clientId))

(* any other type: the default branch of handleMessage *)
UnknownType(clientId) ==
    /\ ReceiveEnh(clientId, "other", EmptyMap)
    /\ CommitEnh(ReplyError(Enh, clients, clientId, "Unknown type"))

(* ws.on('close'): a frame written to the closing socket is not delivered *)
CloseEnh(clientId) ==
    /\ clientId \in clients
    /\ LET meta == getMeta(metas, clientId)
           st1 == IF meta.meetingId # NULL /\ meta.userId # NULL
                  THEN removeUserFromMeetingEnh(Enh, clients \ {clientId}, meta.userId,
                                                meta.meetingId)
                  ELSE Enh
       IN /\ meetings' = st1.mt
          /\ out' = st1.o
          /\ inp' = [type |-> "close", clientId |-> clientId, userId |-> meta.userId,
                     meetingId |-> meta.meetingId, data |-> EmptyMap]
    /\ userToClient' = removeSocketMap(metas, userToClient, clientId)
    /\ metas' = removeSocketMetas(metas, clientId)
    /\ clients' = clients \ {clientId}
    /\ UNCHANGED <<nextClient, directIce, waitingAnswers, timers, nextSid, flushLog,
                   received>>
    /\ quiet' = [quiet EXCEPT ![clientId] = 0]
    /\ UNCHANGED <<queue, wire, escaped>>

(* fields a handler never reads are left out of the frame *)
UnreadIceEnh(clientId, targetUserId, candidate) ==
    /\ getMeta(metas, clientId).userId = NULL => candidate = NULL
    /\ candidate = NULL => targetUserId = NULL

UnreadSdp(targetUserId, sdp, sdpType) ==
    /\ sdp = NULL => sdpType = NULL
    /\ sdpType = NULL => targetUserId = NULL

NextEnhanced ==
    \/ Idle /\ Connect
    \/ Idle /\ \E c \in clients, u \in Users \cup {NULL} : RegisterEnh(c, u)
    \/ Idle /\ \E c \in clients, m \in DataMeeting : Join(c, m)
    \/ Idle /\ \E c \in clients : LeaveEnh(c)
    \/ Idle /\ \E c \in clients, t \in Users \cup {NULL}, k \in Candidates \cup {NULL} :
          UnreadIceEnh(c, t, k) /\ IceEnh(c, t, k)
    \/ Idle /\ \E c \in clients, kind \in SdpKinds : \E t \in Users \cup {NULL},
          s \in Sdps \cup {NULL}, y \in {kind, NULL} :
          UnreadSdp(t, s, y) /\ Sdp(c, kind, t, s, y)
    \/ Idle /\ \E c \in clients : UnknownType(c)
    \/ Idle /\ \E c \in clients : CloseEnh(c)
    \/ Drain

SpecEnhanced == Init /\ [][NextEnhanced]_vars

(* C12: register on a connection that is joined to a meeting rebinds the    *)
(* user and leaves meeting membership as it was: the connection's bound     *)
(* meeting and every meeting's participant set are the same before and      *)
(* after.                                                                   *)
C12_RegisterKeepsMembership ==
    [][(inp'.type = "register" /\ inp'.meetingId # NULL) =>
          /\ getMeta(metas', inp'.clientId).meetingId = inp'.meetingId
          /\ getMeta(metas, inp'.clientId).meetingId = inp'.meetingId
          /\ DOMAIN meetings' = DOMAIN meetings
          /\ \A m \in DOMAIN meetings :
                meetings'[m].participants = meetings[m].participants
          /\ inp'.data.userId # NULL =>
                /\ getMeta(metas', inp'.clientId).userId = inp'.data.userId
                /\ getClientIdByUser(userToClient', inp'.data.userId) = inp'.clientId]_vars

(* a connection joined to a meeting as one user has just registered as      *)
(* another user                                                             *)
C12_Witness ==
    /\ inp.type = "register"
    /\ inp.meetingId \in DOMAIN meetings
    /\ inp.userId \in meetings[inp.meetingId].participants
    /\ inp.data.userId \notin {NULL, inp.userId}
    /\ getMeta(metas, inp.clientId).userId = inp.data.userId
    /\ getMeta(metas, inp.clientId).meetingId = inp.meetingId

(* the last step ran removeUserFromMeeting(inp'.userId, inp'.meetingId) on  *)
(* an existing meeting: an accepted leave, or the close of a joined socket  *)
RemovedFromMeeting ==
    /\ inp'.type \in {"leave", "close"}
    /\ inp'.userId # NULL
    /\ inp'.meetingId \in DOMAIN meetings

(* C13: after removeUserFromMeeting(m, u), u is absent from m's             *)
(* participants, iceCandidates and sdps, and if the participant set became  *)
(* empty the meeting is gone, so that the next join starts from a fresh     *)
(* meeting.                                                                 *)
C13_RemovedUserAndEmptyMeetingGone ==
    [][RemovedFromMeeting =>
          LET m == inp'.meetingId
              u == inp'.userId
          IN /\ m \in DOMAIN meetings' =>
                   /\ u \notin meetings'[m].participants
                   /\ u \notin DOMAIN meetings'[m].iceCandidates
                   /\ u \notin DOMAIN meetings'[m].sdps
             /\ meetings[m].participants \ {u} = {} => m \notin DOMAIN meetings']_vars

(* C13, the part that holds: the removed user is absent from the meeting's  *)
(* participants, iceCandidates and sdps, and the meeting object stays.      *)
C13_RemovedUserAbsent ==
    [][RemovedFromMeeting =>
          LET m == inp'.meetingId
              u == inp'.userId
          IN /\ m \in DOMAIN meetings'
             /\ u \notin meetings'[m].participants
             /\ u \notin DOMAIN meetings'[m].iceCandidates
             /\ u \notin DOMAIN meetings'[m].sdps]_vars

(* the only participant of a meeting has just been removed and the meeting  *)
(* object is still there, with no participants                              *)
C13_Witness ==
    /\ inp.type \in {"leave", "close"}
    /\ inp.userId # NULL
    /\ inp.meetingId \in DOMAIN meetings
    /\ meetings[inp.meetingId].participants = {}
    /\ meetings[inp.meetingId].iceCandidates = EmptyMap
    /\ \E i \in 1..Len(out) : out[i].type = "ice-sync"

(* the last step handled a join that passed both checks of handleJoin *)
JoinAccepted ==
    inp'.type = "join" /\ inp'.userId # NULL /\ inp'.data.meetingId # NULL

FramesTo(o, clientId, type) == {f \in FramesOf(o) : f.to = clientId /\ f.type = type}

(* C14: a join by a registered connection binds the connection to the       *)
(* meeting, adds the user to the participants, replies to the joiner with   *)
(* the participant list without the joiner, and delivers                    *)
(* participant-joined to every other connection of the meeting and not to   *)
(* the joiner.                                                              *)
C14_JoinRepliesAndNotifiesOthers ==
    [][JoinAccepted =>
          LET c == inp'.clientId
              u == inp'.userId
              m == inp'.data.meetingId
          IN /\ getMeta(metas', c).meetingId = m
             /\ u \in meetings'[m].participants
             /\ \E f \in FramesTo(out', c, "meeting-state") :
                    f.data.participants = meetings'[m].participants \ {u}
             /\ \A d \in clients \ {c} :
                    getMeta(metas, d).meetingId = m =>
                       \E f \in FramesTo(out', d, "participant-joined") :
                           f.data.userId = u
             /\ FramesTo(out', c, "participant-joined") = {}]_vars

(* C14, what the handler does: the joiner is bound and added, the           *)
(* meeting-state reply lists every participant, the joiner included, and    *)
(* participant-joined goes to every connection bound to the meeting, the    *)
(* joiner's included.                                                       *)
C14_JoinAsImplemented ==
    [][JoinAccepted =>
          LET c == inp'.clientId
              u == inp'.userId
              m == inp'.data.meetingId
          IN /\ getMeta(metas', c).meetingId = m
             /\ meetings'[m].participants = ParticipantsOf(m) \cup {u}
             /\ \E f \in FramesTo(out', c, "meeting-state") :
                    f.data.participants = meetings'[m].participants
             /\ \A d \in clients :
                    getMeta(metas', d).meetingId = m =>
                       \E f \in FramesTo(out', d, "participant-joined") :
                           f.data.userId = u]_vars

(* a second user has just joined a meeting another connection is in *)
C14_Witness ==
    /\ inp.type = "join"
    /\ inp.userId # NULL
    /\ inp.data.meetingId \in DOMAIN meetings
    /\ Cardinality(meetings[inp.data.meetingId].participants) = 2
    /\ \E d \in clients \ {inp.clientId} :
          FramesTo(out, d, "participant-joined") # {}
    /\ FramesTo(out, inp.clientId, "participant-joined") # {}

(* the connection the last frame came from had no registered user *)
FromUnregistered == getMeta(metas, inp'.clientId).userId = NULL

(* C15: a join sent on a connection that has not registered is rejected     *)
(* with an error reply and changes nothing: the connection stays            *)
(* unregistered, no meeting is created and no participant set changes.      *)
(* Aggregating server: the join message is join_request.                    *)
C15_UnregisteredJoinRejected ==
    [][(inp'.type = "join_request" /\ FromUnregistered) =>
          /\ FramesTo(out', inp'.clientId, "error") # {}
          /\ UNCHANGED <<clients, metas, userToClient, meetings>>]_vars

(* C15 on the enhanced server, where it holds: handleJoin throws before it  *)
(* binds or creates anything.                                               *)
C15_UnregisteredJoinRejectedEnh ==
    [][(inp'.type = "join" /\ FromUnregistered) =>
          /\ FramesTo(out', inp'.clientId, "error") # {}
          /\ Len(out') = 1
          /\ UNCHANGED <<clients, metas, userToClient, meetings, directIce>>]_vars

(* a join_request that gave its user in data.from on a connection that      *)
(* never registered has just been answered with a participant list, and     *)
(* the meeting exists                                                       *)
C15_Witness ==
    /\ inp.type = "join_request"
    /\ inp.clientId \in clients
    /\ getMeta(metas, inp.clientId).userId = NULL
    /\ inp.boundUser # NULL
    /\ inp.data.meeting_id \in DOMAIN meetings
    /\ FramesTo(out, inp.clientId, "participants") # {}
    /\ FramesTo(out, inp.clientId, "error") = {}

SignalTypes == {"webrtc-offer", "webrtc-answer", "webrtc-ice-candidate"}

(* C16: offer, answer and iceCandidate need a joined sender: sent from a    *)
(* connection that is unregistered, or registered but in no meeting, they   *)
(* produce an error reply to the sender, are forwarded to nobody and store  *)
(* nothing.                                                                 *)
C16_SignalsRequireJoined ==
    [][(inp'.type \in SignalTypes /\ inp'.meetingId = NULL) =>
          /\ FramesTo(out', inp'.clientId, "error") # {}
          /\ \A f \in FramesOf(out') : f.to = inp'.clientId /\ f.type = "error"
          /\ UNCHANGED <<meetings, directIce>>]_vars

(* C16, the part that holds: a signal from a connection that is in no       *)
(* meeting never changes a meeting, and an ICE candidate from an            *)
(* unregistered connection is rejected with an error and nothing else.      *)
C16_NotJoinedTouchesNoMeeting ==
    [][(inp'.type \in SignalTypes /\ inp'.meetingId = NULL) =>
          /\ meetings' = meetings
          /\ (inp'.type = "webrtc-ice-candidate" /\ inp'.userId = NULL) =>
                /\ FramesTo(out', inp'.clientId, "error") # {}
                /\ Len(out') = 1
                /\ directIce' = directIce]_vars

(* an offer sent by a connection that never registered has just been        *)
(* forwarded to another connection                                          *)
C16_Witness ==
    /\ inp.type = "webrtc-offer"
    /\ inp.userId = NULL
    /\ inp.meetingId = NULL
    /\ \E d \in clients \ {inp.clientId} : FramesTo(out, d, "webrtc-offer") # {}
    /\ FramesTo(out, inp.clientId, "error") = {}

(* a candidate sent by a registered connection that is in no meeting has    *)
(* just been stored for a direct call and forwarded                         *)
C16_WitnessIce ==
    /\ inp.type = "webrtc-ice-candidate"
    /\ inp.userId # NULL
    /\ inp.meetingId = NULL
    /\ directIce # EmptyMap
    /\ \E d \in clients : FramesTo(out, d, "webrtc-ice-candidate") # {}

(* ======================================================================= *)
(*  src/unnamed/part_005, lines 1-352: the relaying server.  Every message  *)
(*  names its sender in data.from; offers, answers and candidates come as   *)
(*  arrays whose entries are routed one by one, or all at once to data.to.  *)
(*  Names already used above carry the suffix Rel.                          *)
(* ======================================================================= *)

MaxRelay == 2          \* entries in the offers / answers array of one relayed message

(* one entry of data.offers / data.answers: {from, to, meeting_id?, sdp_details} *)
RelayEntry == [from : Users, to : Users, meeting_id : Meetings \cup {NULL},
               sdp_details : {"sdpA"}]
RelayInputs == ArraysUpTo(RelayEntry, MaxRelay)

handleRegisterRel(st, cs, clientId, dataFrom) ==
    IF dataFrom = NULL THEN Throw(st, cs, clientId, "register requires from (userId)")
    ELSE [st EXCEPT !.ms = bindUserMetas(st.ms, clientId, dataFrom),
                    !.u2c = bindUserMap(st.u2c, clientId, dataFrom),
                    !.o = sendToClient(cs, st.o, clientId, "registered", Plain("reply"),
                                       [id |-> dataFrom])]

handleJoinRequestRel(st, cs, clientId, dataFrom, meetingId) ==
    IF dataFrom = NULL \/ meetingId = NULL
    THEN Throw(st, cs, clientId, "join_request requires from and meeting_id")
    ELSE LET ms1 == bindMeeting(st.ms, clientId, meetingId)
             mt0 == IF meetingId \in DOMAIN st.mt THEN st.mt
                    ELSE Put(st.mt, meetingId, EmptyMeeting)
             prev == mt0[meetingId].participants
             mt1 == [mt0 EXCEPT ![meetingId].participants = @ \cup {dataFrom}]
             o1 == sendToClient(cs, st.o, clientId, "participants", Plain("reply"),
                                [participants |-> prev])
             o2 == broadcastToMeeting(cs, ms1, o1, meetingId, clientId,
                                      "participant_joined",
                                      [userId |-> dataFrom, meetingId |-> meetingId])
             o3 == sendToClient(cs, o2, clientId, "meeting_state", Plain("reply"),
                                [meetingId |-> meetingId,
                                 participants |-> mt1[meetingId].participants,
                                 iceMap |-> mt1[meetingId].iceCandidates,
                                 sdpMap |-> mt1[meetingId].sdps])
         IN [st EXCEPT !.ms = ms1, !.mt = mt1, !.o = o3]

(* per-entry routing of handleOffer / handleAnswer: forward the entry when  *)
(* its target has a binding (an offline target is only logged), then store  *)
(* its SDP under the meeting it names                                       *)
RECURSIVE RelayLoop(_, _, _, _)
RelayLoop(st, cs, type, entries) ==
    IF entries = <<>> THEN st
    ELSE LET e == Head(entries)
             targetClient == getClientIdByUser(st.u2c, e.to)
             o1 == IF targetClient # NoClient
                   THEN sendToClient(cs, st.o, targetClient, type, Plain("forward"),
                                     [entries |-> <<e>>])
                   ELSE st.o
             mt1 == IF e.meeting_id # NULL /\ e.meeting_id \in DOMAIN st.mt
                    THEN [st.mt EXCEPT ![e.meeting_id].sdps = Put(@, e.from, e.sdp_details)]
                    ELSE st.mt
         IN RelayLoop([st EXCEPT !.o = o1, !.mt = mt1], cs, type, Tail(entries))

(* handleOffer and handleAnswer differ in the type they forward only;       *)
(* isArray is Array.isArray(data.offers) / Array.isArray(data.answers)      *)
handleRelay(st, cs, clientId, type, isArray, entries, topLevelTo) ==
    IF ~isArray THEN Throw(st, cs, clientId, "requires array")
    ELSE IF topLevelTo # NULL
    THEN IF getClientIdByUser(st.u2c, topLevelTo) = NoClient
         THEN ReplyError(st, cs, clientId, "Target not online")
         ELSE [st EXCEPT !.o = sendToClient(cs, st.o, getClientIdByUser(st.u2c, topLevelTo),
                                   type, Plain("forward"), [entries |-> entries])]
    ELSE RelayLoop(st, cs, type, entries)

(* for (const [meetingId, meeting] of meetings.entries()): push into every  *)
(* meeting the sender is a participant of                                   *)
PushIce(mt, dataFrom, candidates) ==
    [m \in DOMAIN mt |->
        IF dataFrom \in mt[m].participants
        THEN [mt[m] EXCEPT !.iceCandidates =
                               Put(@, dataFrom, IceOf(mt[m], dataFrom) \o candidates)]
        ELSE mt[m]]

RECURSIVE IceLoop(_, _, _, _)
IceLoop(st, cs, dataFrom, groups) ==
    IF groups = <<>> THEN st
    ELSE LET entry == Head(groups)
             targetClient == getClientIdByUser(st.u2c, entry.user_id)
             o1 == IF targetClient # NoClient
                   THEN sendToClient(cs, st.o, targetClient, "ice_candidate",
                                     Plain("forward"),
                                     [from |-> dataFrom, candidates |-> <<entry>>])
                   ELSE st.o
         IN IceLoop([st EXCEPT !.mt = PushIce(st.mt, dataFrom, entry.candidates), !.o = o1],
                    cs, dataFrom, Tail(groups))

handleIceCandidateRel(st, cs, clientId, dataFrom, isArray, groups, topLevelTo) ==
    IF dataFrom = NULL \/ ~isArray
    THEN Throw(st, cs, clientId, "ice_candidate requires from and candidates array")
    ELSE IF topLevelTo # NULL
    THEN IF getClientIdByUser(st.u2c, topLevelTo) = NoClient
         THEN ReplyError(st, cs, clientId, "Target not online")
         ELSE [st EXCEPT !.o = sendToClient(cs, st.o, getClientIdByUser(st.u2c, topLevelTo),
                                   "ice_candidate", Plain("forward"),
                                   [from |-> dataFrom, candidates |-> groups])]
    ELSE IceLoop(st, cs, dataFrom, groups)

removeUserFromMeetingRel(st, cs, userId, meetingId) ==
    IF meetingId \notin DOMAIN st.mt THEN st
    ELSE LET m1 == [participants |-> st.mt[meetingId].participants \ {userId},
                    sdps |-> Without(st.mt[meetingId].sdps, userId),
                    iceCandidates |-> Without(st.mt[meetingId].iceCandidates, userId)]
         IN [st EXCEPT !.mt[meetingId] = m1,
                       !.o = broadcastToMeeting(cs, st.ms, st.o, meetingId, NoClient,
                                                "participant_left", [from |-> userId])]

handleLeaveRel(st, cs, clientId, dataFrom, dataMeeting) ==
    IF dataFrom = NULL THEN Throw(st, cs, clientId, "leave requires from")
    ELSE LET meetingId == IF dataMeeting # NULL THEN dataMeeting
                          ELSE getMeta(st.ms, clientId).meetingId
         IN IF meetingId # NULL /\ meetingId \in DOMAIN st.mt
            THEN removeUserFromMeetingRel(st, cs, dataFrom, meetingId)
            ELSE st

(* ws.on('message') of the relaying server *)
ReceiveRel(clientId, type, data) ==
    /\ ReceiveEnh(clientId, type, data)
    /\ UNCHANGED directIce
    /\ UNCHANGED auxVars

RegisterRel(clientId, dataFrom) ==
    /\ ReceiveRel(clientId, "register", [from |-> dataFrom])
    /\ CommitEnh(handleRegisterRel(Enh, clients, clientId, dataFrom))

JoinRequestRel(clientId, dataFrom, meetingId) ==
    /\ ReceiveRel(clientId, "join_request", [from |-> dataFrom, meeting_id |-> meetingId])
    /\ CommitEnh(handleJoinRequestRel(Enh, clients, clientId, dataFrom, meetingId))

(* message {type:'offer', data:{offers, to?}} or {type:'answer', data:{answers, to?}} *)
Relay(clientId, type, isArray, entries, topLevelTo) ==
    /\ ReceiveRel(clientId, type,
                  [isArray |-> isArray, entries |-> entries, to |-> topLevelTo])
    /\ CommitEnh(handleRelay(Enh, clients, clientId, type, isArray, entries, topLevelTo))

(* message {type:'ice_candidate', data:{from, candidates, to?}} *)
IceRel(clientId, dataFrom, isArray, groups, topLevelTo) ==
    /\ ReceiveRel(clientId, "ice_candidate",
                  [from |-> dataFrom, isArray |-> isArray, candidates |-> groups,
                   to |-> topLevelTo])
    /\ (dataFrom # NULL /\ topLevelTo = NULL) =>
          \A m \in DOMAIN meetings : Len(IceOf(meetings[m], dataFrom)) < MaxIce
    /\ CommitEnh(handleIceCandidateRel(Enh, clients, clientId, dataFrom, isArray, groups,
                                       topLevelTo))

LeaveRel(clientId, dataFrom, dataMeeting) ==
    /\ ReceiveRel(clientId, "leave", [from |-> dataFrom, meeting_id |-> dataMeeting])
    /\ CommitEnh(handleLeaveRel(Enh, clients, clientId, dataFrom, dataMeeting))

UnknownTypeRel(clientId) ==
    /\ ReceiveRel(clientId, "other", EmptyMap)
    /\ CommitEnh(ReplyError(Enh, clients, clientId, "Unknown message type"))

(* ws.on('close'): a frame written to the closing socket is not delivered *)
CloseRel(clientId) ==
    /\ clientId \in clients
    /\ LET meta == getMeta(metas, clientId)
           st1 == IF meta.meetingId # NULL /\ meta.userId # NULL
                  THEN removeUserFromMeetingRel(Enh, clients \ {clientId}, meta.userId,
                                                meta.meetingId)
                  ELSE Enh
       IN /\ meetings' = st1.mt
          /\ out' = st1.o
          /\ inp' = [type |-> "close", clientId |-> clientId, userId |-> meta.userId,
                     meetingId |-> meta.meetingId, data |-> EmptyMap]
    /\ userToClient' = removeSocketMap(metas, userToClient, clientId)
    /\ metas' = removeSocketMetas(metas, clientId)
    /\ clients' = clients \ {clientId}
    /\ UNCHANGED <<nextClient, directIce, waitingAnswers, timers, nextSid, flushLog,
                   received>>
    /\ UNCHANGED auxVars

(* with data.to the array is forwarded whole and its entries are not read *)
UnreadRelay(isArray, entries, topLevelTo) ==
    /\ ~isArray => (entries = <<>> /\ topLevelTo = NULL)
    /\ topLevelTo # NULL => Len(entries) <= 1

NextRelay ==
    \/ Idle /\ Connect
    \/ Idle /\ \E c \in clients, u \in Users \cup {NULL} : RegisterRel(c, u)
    \/ Idle /\ \E c \in clients, u \in Users \cup {NULL}, m \in DataMeeting :
          (u = NULL => m = NULL) /\ JoinRequestRel(c, u, m)
    \/ Idle /\ \E c \in clients, type \in {"offer", "answer"}, a \in BOOLEAN,
          es \in RelayInputs, t \in Users \cup {NULL} :
          UnreadRelay(a, es, t) /\ Relay(c, type, a, es, t)
    \/ Idle /\ \E c \in clients, u \in Users \cup {NULL}, a \in BOOLEAN,
          g \in CandidateGroupInputs, t \in Users \cup {NULL} :
          ((u = NULL \/ ~a) => (g = <<>> /\ t = NULL)) /\ IceRel(c, u, a, g, t)
    \/ Idle /\ \E c \in clients, u \in Users \cup {NULL}, m \in DataMeeting :
          (u = NULL => m = NULL) /\ LeaveRel(c, u, m)
    \/ Idle /\ \E c \in clients : UnknownTypeRel(c)
    \/ Idle /\ \E c \in clients : CloseRel(c)
    \/ Drain

SpecRelay == Init /\ [][NextRelay]_vars

(* the users an offer / answer of the relaying server names as targets *)
NamedTargets(data) ==
    IF data.to # NULL THEN {data.to}
    ELSE {data.entries[i].to : i \in 1..Len(data.entries)}

(* C17: an offer or answer that names a target user is delivered to exactly *)
(* one connection, the one bound to that user, and to no other; if no       *)
(* connection is bound to the target nothing is forwarded and the sender    *)
(* receives an error reply.  Relaying server, data.to and per-entry `to`.   *)
C17_TargetedSdpToBoundOnly ==
    [][(inp'.type \in {"offer", "answer"} /\ inp'.data.isArray) =>
          LET fw == {f \in FramesOf(out') : f.type = inp'.type}
              bound(t) == getClientIdByUser(userToClient, t)
          IN /\ \A f \in fw : \E t \in NamedTargets(inp'.data) : f.to = bound(t)
             /\ \A t \in NamedTargets(inp'.data) :
                    IF HasLiveConnection(t)
                    THEN \E f \in fw : f.to = bound(t)
                    ELSE FramesTo(out', inp'.clientId, "error") # {}]_vars

(* C17, the part that holds on the relaying server: a forwarded offer or    *)
(* answer goes to the connection bound to a named target and to no other,   *)
(* and every named target with a live bound connection gets one.            *)
C17_RelayedToBoundOnly ==
    [][(inp'.type \in {"offer", "answer"} /\ inp'.data.isArray) =>
          LET fw == {f \in FramesOf(out') : f.type = inp'.type}
              bound(t) == getClientIdByUser(userToClient, t)
          IN /\ \A f \in fw : \E t \in NamedTargets(inp'.data) : f.to = bound(t)
             /\ \A t \in NamedTargets(inp'.data) :
                    HasLiveConnection(t) => \E f \in fw : f.to = bound(t)]_vars

(* C17 on the enhanced server: a targeted webrtc-offer / webrtc-answer is   *)
(* written to the connection bound to the target and to no other; without   *)
(* a bound connection the only frame is an error to the sender; a target    *)
(* bound to another meeting than the sender's gets nothing either           *)
(* ('User is busy').                                                        *)
C17_TargetedSdpEnh ==
    [][(/\ inp'.type \in {"webrtc-offer", "webrtc-answer"}
        /\ inp'.data.sdpType # NULL
        /\ inp'.data.targetUserId # NULL) =>
          LET t == inp'.data.targetUserId
              target == getClientIdByUser(userToClient, t)
              fw == {f \in FramesOf(out') : f.type = inp'.type}
              busy == /\ getMeta(metas, target).meetingId # NULL
                      /\ getMeta(metas, target).meetingId # inp'.meetingId
          IN /\ \A f \in fw : f.to = target
             /\ IF HasLiveConnection(t) /\ ~busy
                THEN /\ Len(out') = 1
                     /\ fw # {}
                ELSE /\ fw = {}
                     /\ Len(out') = 1
                     /\ FramesTo(out', inp'.clientId, "error") # {}]_vars

(* an offer whose only entry names a user without any connection has just   *)
(* been handled: nothing was written, not even an error                     *)
C17_Witness ==
    /\ inp.type = "offer"
    /\ inp.data.isArray
    /\ inp.data.to = NULL
    /\ Len(inp.data.entries) = 1
    /\ getClientIdByUser(userToClient, inp.data.entries[1].to) = NoClient
    /\ inp.clientId \in clients
    /\ out = <<>>

(* the stored candidates of userId in meetingId, <<>> without the meeting *)
StoredIce(mt, meetingId, userId) ==
    IF meetingId \in DOMAIN mt THEN IceOf(mt[meetingId], userId) ELSE <<>>

(* aggregating server: the last frame was an ice_candidate that took the    *)
(* meeting path, sent by a participant of the meeting it names              *)
IceOnMeetingPath ==
    /\ inp'.type = "ice_candidate"
    /\ inp'.boundUser # NULL
    /\ inp'.data.candidate # NULL
    /\ inp'.data.to = NULL
    /\ inp'.data.meeting_id # NULL
    /\ inp'.boundUser \in ParticipantsOf(inp'.data.meeting_id)

(* C18: an iceCandidate on the meeting path by user u in meeting m appends  *)
(* the candidate to the end of m's candidate sequence for u, earlier        *)
(* candidates and other users' sequences staying as they are, and an        *)
(* ice-sync carrying the aggregate map reaches every other participant of   *)
(* m (every one that has a live connection).                                *)
C18_IceAppendedAndSynced ==
    [][IceOnMeetingPath =>
          LET u == inp'.boundUser
              m == inp'.data.meeting_id
          IN /\ StoredIce(meetings', m, u)
                    = Append(StoredIce(meetings, m, u), inp'.data.candidate)
             /\ \A v \in Users \ {u} : StoredIce(meetings', m, v) = StoredIce(meetings, m, v)
             /\ \A v \in meetings'[m].participants \ {u} :
                    HasLiveConnection(v) =>
                       \E f \in FramesTo(out', getClientIdByUser(userToClient, v),
                                          "ice_candidate") :
                           f.data.ice_map = meetings'[m].iceCandidates]_vars

(* C18, the part that holds on the aggregating server: the candidate is     *)
(* appended and nothing else in the map changes.                            *)
C18_IceAppended ==
    [][IceOnMeetingPath =>
          LET u == inp'.boundUser
              m == inp'.data.meeting_id
          IN /\ StoredIce(meetings', m, u)
                    = Append(StoredIce(meetings, m, u), inp'.data.candidate)
             /\ \A v \in Users \ {u} :
                    StoredIce(meetings', m, v) = StoredIce(meetings, m, v)]_vars

(* C18 on the enhanced server: the candidate is appended to the sender's    *)
(* sequence in the meeting its connection is bound to, nothing else in the  *)
(* map changes, and ice-sync with the new map is written to every           *)
(* connection bound to the meeting.                                         *)
C18_IceAppendedAndSyncedEnh ==
    [][(/\ inp'.type = "webrtc-ice-candidate"
        /\ inp'.userId # NULL
        /\ inp'.data.candidate # NULL
        /\ inp'.data.targetUserId = NULL
        /\ inp'.meetingId # NULL) =>
          LET u == inp'.userId
              m == inp'.meetingId
          IN /\ StoredIce(meetings', m, u)
                    = Append(StoredIce(meetings, m, u), inp'.data.candidate)
             /\ \A v \in Users \ {u} : StoredIce(meetings', m, v) = StoredIce(meetings, m, v)
             /\ \A d \in clients :
                    getMeta(metas, d).meetingId = m =>
                       \E f \in FramesTo(out', d, "ice-sync") :
                           f.data.iceMap = meetings'[m].iceCandidates]_vars

(* a participant with an earlier candidate has just stored a second one on  *)
(* the meeting path while another participant has a live connection, and    *)
(* no frame was written                                                     *)
C18_Witness ==
    /\ inp.type = "ice_candidate"
    /\ inp.boundUser # NULL
    /\ inp.data.to = NULL
    /\ inp.data.meeting_id \in DOMAIN meetings
    /\ inp.boundUser \in meetings[inp.data.meeting_id].participants
    /\ Len(StoredIce(meetings, inp.data.meeting_id, inp.boundUser)) = 2
    /\ \E v \in meetings[inp.data.meeting_id].participants \ {inp.boundUser} :
          HasLiveConnection(v)
    /\ out = <<>>

(* enhanced server: the last frame was a leave from a joined connection *)
LeaveAccepted == inp'.type = "leave" /\ inp'.userId # NULL /\ inp'.meetingId # NULL

(* C19: a leave by a joined connection removes its user from the meeting,   *)
(* delivers participant-left to the remaining participants (the other       *)
(* connections of the meeting, not the leaver) and returns the connection   *)
(* to registered: user binding kept, meeting binding cleared.               *)
C19_LeaveNotifiesOthersOnly ==
    [][LeaveAccepted =>
          LET c == inp'.clientId
              u == inp'.userId
              m == inp'.meetingId
          IN /\ u \notin meetings'[m].participants
             /\ \A d \in clients \ {c} :
                    getMeta(metas, d).meetingId = m =>
                       \E f \in FramesTo(out', d, "participant-left") : f.data.userId = u
             /\ FramesTo(out', c, "participant-left") = {}
             /\ getMeta(metas', c) = [userId |-> u, meetingId |-> NULL]
             /\ userToClient' = userToClient]_vars

(* C19, what the handler does: the user is removed, the connection keeps    *)
(* its user and loses its meeting, and participant-left is written to every *)
(* connection bound to the meeting, the leaver's included.                  *)
C19_LeaveAsImplemented ==
    [][LeaveAccepted =>
          LET c == inp'.clientId
              u == inp'.userId
              m == inp'.meetingId
          IN /\ meetings'[m].participants = meetings[m].participants \ {u}
             /\ \A d \in clients :
                    getMeta(metas, d).meetingId = m =>
                       \E f \in FramesTo(out', d, "participant-left") : f.data.userId = u
             /\ getMeta(metas', c) = [userId |-> u, meetingId |-> NULL]
             /\ \A d \in clients \ {c} : getMeta(metas', d) = getMeta(metas, d)
             /\ userToClient' = userToClient]_vars

(* a connection has just left a meeting another connection stays in; both   *)
(* were written participant-left                                            *)
C19_Witness ==
    /\ inp.type = "leave"
    /\ inp.userId # NULL
    /\ inp.meetingId \in DOMAIN meetings
    /\ getMeta(metas, inp.clientId).meetingId = NULL
    /\ meetings[inp.meetingId].participants # {}
    /\ \E d \in clients \ {inp.clientId} :
          /\ getMeta(metas, d).meetingId = inp.meetingId
          /\ FramesTo(out, d, "participant-left") # {}
    /\ FramesTo(out, inp.clientId, "participant-left") # {}

(* aggregating server: no connection is ever bound to a meeting (the only   *)
(* bindMeeting call passes null), so broadcastToMeeting never writes a      *)
(* frame: no participant_left and no meeting ice map is ever delivered.     *)
AggregatingNeverBroadcasts ==
    /\ \A c \in DOMAIN metas : metas[c].meetingId = NULL
    /\ \A f \in Frames : f.site.at # "broadcast"

(* the connections the last step closed *)
Closed == clients \ clients'

C20_CloseAsLeaveEnh ==
    [][(inp'.type = "close" /\ inp'.userId # NULL /\ inp'.meetingId # NULL) =>
          LET c == inp'.clientId
              left == handleLeave(Enh, clients, inp'.userId, inp'.meetingId, c)
              others(o) == {i \in 1..Len(o) : o[i].to # c}
          IN /\ meetings' = left.mt
             /\ inp'.userId \notin meetings'[inp'.meetingId].participants
             /\ inp'.userId \notin DOMAIN meetings'[inp'.meetingId].iceCandidates
             /\ inp'.userId \notin DOMAIN meetings'[inp'.meetingId].sdps
             /\ FramesOf(out') = {left.o[i] : i \in others(left.o)}
             /\ \A d \in clients' :
                    getMeta(metas', d).meetingId = inp'.meetingId =>
                       \E f \in FramesTo(out', d, "participant-left") :
                           f.data.userId = inp'.userId]_vars

(* enhanced server: a joined connection has just closed while another       *)
(* connection stays in the meeting                                          *)
C20_WitnessEnh ==
    /\ inp.type = "close"
    /\ inp.userId # NULL
    /\ inp.meetingId \in DOMAIN meetings
    /\ \E d \in clients : FramesTo(out, d, "participant-left") # {}

(* ======================================================================= *)
(*  ws/socketServer.js, lines 334-682: the peer-to-peer server.  A meeting  *)
(*  holds its participants only; offers, answers and candidates are routed *)
(*  to the user each entry names.  Names already used carry the suffix P2P. *)
(* ======================================================================= *)

MaxP2P == 5            \* frames the clients send to the peer-to-peer server in one run

MeetingP2P == [participants |-> {}]

(* what a handler of the peer-to-peer server reads and writes *)
P2P == [mt |-> meetings, ms |-> metas, u2c |-> userToClient, o |-> <<>>]

CommitP2P(st) ==
    /\ meetings' = st.mt
    /\ metas' = st.ms
    /\ userToClient' = st.u2c
    /\ out' = st.o

(* sendToClient: written only to a registered socket whose readyState is OPEN *)
sendToClientP2P(cs, o, clientId, type, site, data) ==
    IF getWsByClientId(cs, clientId)
    THEN Append(o, Frame(clientId, type, site, data))
    ELSE o

RECURSIVE broadcastFromP2P(_, _, _, _, _, _, _, _)
broadcastFromP2P(i, cs, ms, o, meetingId, excludeClientId, type, data) ==
    IF i > MaxConns + 1 THEN o
    ELSE broadcastFromP2P(i + 1, cs, ms,
            IF i \in cs /\ i # excludeClientId /\ getMeta(ms, i).meetingId = meetingId
            THEN sendToClientP2P(cs, o, i, type, Plain("broadcast"), data)
            ELSE o,
            meetingId, excludeClientId, type, data)

(* the same loop without `if (clientId === excludeClientId) continue` *)
broadcastToAllP2P(cs, ms, o, meetingId, excludeClientId, type, data) ==
    broadcastFromP2P(1, cs, ms, o, meetingId, NoClient, type, data)

broadcastToMeetingP2P(cs, ms, o, meetingId, excludeClientId, type, data) ==
    broadcastFromP2P(1, cs, ms, o, meetingId, excludeClientId, type, data)

(* removeUserFromMeeting: the meeting is deleted with its last participant *)
removeUserFromMeetingP2P(st, cs, userId, meetingId) ==
    IF meetingId \notin DOMAIN st.mt THEN st
    ELSE LET rest == st.mt[meetingId].participants \ {userId}
             o1 == broadcastToMeetingP2P(cs, st.ms, st.o, meetingId, NoClient,
                                         "participant_left", [from |-> userId])
         IN [st EXCEPT !.mt = IF rest = {} THEN Without(st.mt, meetingId)
                                ELSE Put(st.mt, meetingId, [participants |-> rest]),
                       !.o = o1]

handleRegisterP2P(st, cs, clientId, dataFrom) ==
    IF dataFrom = NULL THEN st
    ELSE [st EXCEPT !.ms = bindUserMetas(st.ms, clientId, dataFrom),
                    !.u2c = bindUserMap(st.u2c, clientId, dataFrom),
                    !.o = sendToClientP2P(cs, st.o, clientId, "registered", Plain("reply"),
                                          [id |-> dataFrom, is_online |-> TRUE])]

handleJoinRequestP2P(st, cs, clientId, dataFrom, meetingId) ==
    IF dataFrom = NULL \/ meetingId = NULL THEN st
    ELSE LET ms1 == bindMeeting(st.ms, clientId, meetingId)
             mt0 == IF meetingId \in DOMAIN st.mt THEN st.mt
                    ELSE Put(st.mt, meetingId, MeetingP2P)
             existingParticipants == mt0[meetingId].participants \ {dataFrom}
             mt1 == [mt0 EXCEPT ![meetingId].participants = @ \cup {dataFrom}]
             o1 == sendToClientP2P(cs, st.o, clientId, "participants", Plain("reply"),
                                   [participants |-> existingParticipants])
             o2 == broadcastToMeetingP2P(cs, ms1, o1, meetingId, clientId,
                                         "participant_joined",
                                         [userId |-> dataFrom, meetingId |-> meetingId])
         IN [st EXCEPT !.ms = ms1, !.mt = mt1, !.o = o2]

(* data.offers.forEach / data.answers.forEach: each entry goes to the       *)
(* connection of the user it names, an entry for an offline user is logged  *)
RECURSIVE ForwardLoop(_, _, _, _)
ForwardLoop(st, cs, type, entries) ==
    IF entries = <<>> THEN st
    ELSE LET entry == Head(entries)
             targetClientId == getClientIdByUser(st.u2c, entry.to)
             o1 == IF targetClientId # NoClient
                   THEN sendToClientP2P(cs, st.o, targetClientId, type, Plain("forward"),
                                        [entries |-> <<entry>>])
                   ELSE st.o
         IN ForwardLoop([st EXCEPT !.o = o1], cs, type, Tail(entries))

(* handleOffer and handleAnswer *)
handleForward(st, cs, type, isArray, entries) ==
    IF ~isArray THEN st ELSE ForwardLoop(st, cs, type, entries)

handleIceCandidateP2P(st, cs, dataFrom, toUser, candidates) ==
    IF toUser = NULL \/ candidates = <<>> THEN st
    ELSE LET targetClientId == getClientIdByUser(st.u2c, toUser)
         IN IF targetClientId = NoClient THEN st
            ELSE [st EXCEPT !.o = sendToClientP2P(cs, st.o, targetClientId, "ice_candidate",
                                      Plain("forward"),
                                      [from |-> dataFrom, to |-> toUser,
                                       candidates |-> candidates])]

(* handleLeave: the connection stays bound to the meeting *)
handleLeaveP2P(st, cs, clientId, dataFrom, dataMeeting) ==
    LET meetingId == IF dataMeeting # NULL THEN dataMeeting
                     ELSE getMeta(st.ms, clientId).meetingId
    IN IF dataFrom # NULL /\ meetingId # NULL
       THEN removeUserFromMeetingP2P(st, cs, dataFrom, meetingId)
       ELSE st

(* handleDisconnect, up to removeSocket *)
handleDisconnect(st, cs, clientId) ==
    LET meta == getMeta(st.ms, clientId)
    IN IF clientId \in DOMAIN st.ms /\ meta.userId # NULL /\ meta.meetingId # NULL
       THEN removeUserFromMeetingP2P(st, cs, meta.userId, meta.meetingId)
       ELSE st

(* ws.on('message'): handleMessage reads the user for its log line only *)
ReceiveP2P(clientId, type, data) ==
    /\ clientId \in clients
    /\ received < MaxP2P
    /\ received' = received + 1
    /\ inp' = [type |-> type, clientId |-> clientId,
               userId |-> getMeta(metas, clientId).userId,
               meetingId |-> getMeta(metas, clientId).meetingId, data |-> data]
    /\ UNCHANGED <<clients, nextClient, directIce, waitingAnswers, timers, nextSid, flushLog>>
    /\ UNCHANGED auxVars

(* message {type:'register', data:{from}} *)
RegisterP2P(clientId, dataFrom) ==
    /\ ReceiveP2P(clientId, "register", [from |-> dataFrom])
    /\ CommitP2P(handleRegisterP2P(P2P, clients, clientId, dataFrom))

(* message {type:'join_request', data:{from, meeting_id}} *)
JoinRequestP2P(clientId, dataFrom, meetingId) ==
    /\ ReceiveP2P(clientId, "join_request", [from |-> dataFrom, meeting_id |-> meetingId])
    /\ CommitP2P(handleJoinRequestP2P(P2P, clients, clientId, dataFrom, meetingId))

(* message {type:'offer', data:{offers}} or {type:'answer', data:{answers}} *)
Forward(clientId, kind, isArray, entries) ==
    /\ ReceiveP2P(clientId, kind, [isArray |-> isArray, entries |-> entries])
    /\ CommitP2P(handleForward(P2P, clients, kind, isArray, entries))

(* message {type:'ice_candidate', data:{from, to, candidates}} *)
IceP2P(clientId, dataFrom, toUser, candidates) ==
    /\ ReceiveP2P(clientId, "ice_candidate",
                  [from |-> dataFrom, to |-> toUser, candidates |-> candidates])
    /\ CommitP2P(handleIceCandidateP2P(P2P, clients, dataFrom, toUser, candidates))

(* message {type:'leave', data:{from?, meeting_id?}} *)
LeaveP2P(clientId, dataFrom, dataMeeting) ==
    /\ ReceiveP2P(clientId, "leave", [from |-> dataFrom, meeting_id |-> dataMeeting])
    /\ CommitP2P(handleLeaveP2P(P2P, clients, clientId, dataFrom, dataMeeting))

(* a frame of any other type: the default branch only logs a warning *)
UnknownTypeP2P(clientId) ==
    /\ ReceiveP2P(clientId, "other", EmptyMap)
    /\ CommitP2P(P2P)

(* a frame JSON.parse rejects, or one without a type: the exception is      *)
(* caught by handleMessage and logged                                       *)
UnparseableP2P(clientId) ==
    /\ ReceiveP2P(clientId, "unparseable", EmptyMap)
    /\ CommitP2P(P2P)

(* ws.on('close'): handleDisconnect; the closing socket is no longer OPEN *)
CloseP2P(clientId) ==
    /\ clientId \in clients
    /\ LET st1 == handleDisconnect(P2P, clients \ {clientId}, clientId)
       IN /\ meetings' = st1.mt
          /\ out' = st1.o
    /\ inp' = [type |-> "close", clientId |-> clientId,
               userId |-> getMeta(metas, clientId).userId,
               meetingId |-> getMeta(metas, clientId).meetingId, data |-> EmptyMap]
    /\ userToClient' = removeSocketMap(metas, userToClient, clientId)
    /\ metas' = removeSocketMetas(metas, clientId)
    /\ clients' = clients \ {clientId}
    /\ UNCHANGED <<nextClient, directIce, waitingAnswers, timers, nextSid, flushLog,
                   received>>
    /\ UNCHANGED auxVars

NextP2P ==
    \/ Idle /\ Connect
    \/ Idle /\ \E c \in clients, u \in Users \cup {NULL} : RegisterP2P(c, u)
    \/ Idle /\ \E c \in clients, u \in Users \cup {NULL}, m \in DataMeeting :
          JoinRequestP2P(c, u, m)
    \/ Idle /\ \E c \in clients, kind \in SdpKinds, isArray \in BOOLEAN :
          \E es \in (IF isArray THEN RelayInputs ELSE {<<>>}) : Forward(c, kind, isArray, es)
    \/ Idle /\ \E c \in clients, u \in Users, t \in Users \cup {NULL},
          ks \in {<<>>, <<"k1">>} : IceP2P(c, u, t, ks)
    \/ Idle /\ \E c \in clients, u \in Users \cup {NULL}, m \in DataMeeting : LeaveP2P(c, u, m)
    \/ Idle /\ \E c \in clients : UnknownTypeP2P(c)
    \/ Idle /\ \E c \in clients : UnparseableP2P(c)
    \/ Idle /\ \E c \in clients : CloseP2P(c)
    \/ Drain

SpecP2P == Init /\ [][NextP2P]_vars

(* ----------------------------------------------------------------------- *)
(* announcements that a participant has left, among the frames o *)
LeftFrames(o) ==
    {i \in 1..Len(o) : o[i].type \in {"participant_left", "participant-left"}}

(* the user of the closing connection is no longer in the meeting the      *)
(* connection is bound to: it has been removed and announced before        *)
ClosedAfterRemoval ==
    /\ inp'.type = "close"
    /\ inp'.userId # NULL
    /\ inp'.meetingId # NULL
    /\ inp'.meetingId \in DOMAIN meetings
    /\ inp'.userId \notin meetings[inp'.meetingId].participants

(* C21: cleanup of a disconnecting connection runs exactly once: when the  *)
(* participant has already been removed from its meeting (a leave followed *)
(* by the close), the close announces nobody a second time.                *)
C21_CleanupExactlyOnce ==
    [][ClosedAfterRemoval => LeftFrames(out') = {}]_vars

(* a connection whose user had left has just closed, and the participant   *)
(* that stayed in the meeting was told once more that the user left        *)
C21_Witness ==
    /\ inp.type = "close"
    /\ inp.userId # NULL
    /\ inp.meetingId \in DOMAIN meetings
    /\ inp.userId \notin meetings[inp.meetingId].participants
    /\ \E i \in LeftFrames(out) : out[i].data.from = inp.userId
    /\ \E d \in clients : getMeta(metas, d).meetingId = inp.meetingId

(* ----------------------------------------------------------------------- *)
(* the registry, the meeting store and the aggregation sessions are as     *)
(* they were before the step                                               *)
StateKept ==
    UNCHANGED <<clients, metas, userToClient, meetings, directIce, waitingAnswers, timers>>

(* C22: a message of unknown type gets an error reply to its sender and    *)
(* leaves the connection, the registry, the meeting store and the          *)
(* aggregation sessions unchanged.                                         *)
C22_UnknownTypeRejected ==
    [][inp'.type = "other" =>
          /\ FramesTo(out', inp'.clientId, "error") # {}
          /\ StateKept]_vars

(* on the enhanced server the default branch replies and changes nothing *)
C22_UnknownTypeRejectedEnh ==
    [][inp'.type = "other" =>
          /\ FramesTo(out', inp'.clientId, "error") # {}
          /\ \A i \in 1..Len(out') : out'[i].to = inp'.clientId
          /\ StateKept]_vars

(* a frame of unknown type has just been handled and nothing was written *)
C22_Witness ==
    /\ inp.type = "other"
    /\ inp.clientId \in clients
    /\ out = <<>>

(* ----------------------------------------------------------------------- *)
(* C23: an unparseable frame gets an error reply to its sender and is      *)
(* dropped: no handler runs for it and no state changes.                   *)
C23_UnparseableRejected ==
    [][inp'.type = "unparseable" =>
          /\ FramesTo(out', inp'.clientId, "error") # {}
          /\ \A i \in 1..Len(out') : out'[i].to = inp'.clientId
          /\ StateKept]_vars

(* a frame that does not parse has just been dropped without any reply *)
C23_Witness ==
    /\ inp.type = "unparseable"
    /\ inp.clientId \in clients
    /\ out = <<>>

(* ----------------------------------------------------------------------- *)
(* the frame lacks a field its handler requires (peer-to-peer server) *)
LacksRequiredP2P(frame) ==
    \/ frame.type = "register" /\ frame.data.from = NULL
    \/ frame.type = "join_request" /\ (frame.data.from = NULL \/ frame.data.meeting_id = NULL)
    \/ frame.type \in SdpKinds /\ ~frame.data.isArray
    \/ frame.type = "ice_candidate" /\ (frame.data.to = NULL \/ frame.data.candidates = <<>>)

(* the frame violates a precondition of its handler (enhanced server) *)
ViolatesPreconditionEnh(frame) ==
    \/ frame.type = "register" /\ frame.data.userId = NULL
    \/ frame.type = "join" /\ (frame.userId = NULL \/ frame.data.meetingId = NULL)
    \/ frame.type = "leave" /\ (frame.userId = NULL \/ frame.meetingId = NULL)
    \/ frame.type = "webrtc-ice-candidate"
          /\ (frame.userId = NULL \/ frame.data.candidate = NULL)
    \/ frame.type \in {"webrtc-offer", "webrtc-answer"}
          /\ (frame.data.sdp = NULL \/ frame.data.sdpType = NULL)

(* C24: a message that violates a precondition or lacks a required field   *)
(* produces an error reply to the sender, leaves the registry, the         *)
(* meetings and the sessions as they were, and never closes or unregisters *)
(* the connection.                                                         *)
C24_InvalidMessageRejected ==
    [][LacksRequiredP2P(inp') =>
          /\ FramesTo(out', inp'.clientId, "error") # {}
          /\ StateKept
          /\ inp'.clientId \in clients']_vars

(* on the enhanced server the checks a handler makes first are answered    *)
(* with an error and change nothing                                        *)
C24_InvalidMessageRejectedEnh ==
    [][ViolatesPreconditionEnh(inp') =>
          /\ FramesTo(out', inp'.clientId, "error") # {}
          /\ \A i \in 1..Len(out') : out'[i].to = inp'.clientId
          /\ StateKept
          /\ inp'.clientId \in clients']_vars

(* a join_request without meeting_id has just been dropped without reply *)
C24_Witness ==
    /\ inp.type = "join_request"
    /\ inp.data.from # NULL
    /\ inp.data.meeting_id = NULL
    /\ inp.clientId \in clients
    /\ out = <<>>

(* ======================================================================= *)
(*  handleMessage of the aggregating server with the logger of             *)
(*  utils/logger.js.  Spec above takes every logger call to return; here   *)
(*  a call of a method that module.exports does not define throws          *)
(*  "TypeError: logger.debug is not a function".                           *)
(* ======================================================================= *)

(* module.exports of utils/logger.js *)
LoggerMethods == {"info", "warn", "error"}

(* logger.<method>(...) returns *)
logs(method) == method \in LoggerMethods

MessageTypes == {"register", "join_request", "offer", "answer", "ice_candidate", "leave",
                 "other"}

(* handleMessage up to its try block: tryParse, the reply to an invalid    *)
(* frame, and the two log lines written before the switch is entered       *)
handleMessageEntry(cs, o, clientId, parses) ==
    IF ~parses
    THEN [thrown |-> ~logs("warn"), dispatched |-> FALSE,
          o |-> IF logs("warn")
                THEN sendToClient(cs, o, clientId, "error", Plain("reply"),
                                  [message |-> "invalid json"])
                ELSE o]
    ELSE [thrown |-> ~(logs("info") /\ logs("debug")),
          dispatched |-> logs("info") /\ logs("debug"),
          o |-> o]

(* ws.on('message') *)
ReceiveLogged(clientId, type) ==
    /\ clientId \in clients
    /\ received < MaxMsgs
    /\ received' = received + 1
    /\ inp' = [type |-> type, clientId |-> clientId,
               boundUser |-> BoundUser(metas, clientId, NULL), data |-> EmptyMap]

(* a frame that tryParse rejects *)
InvalidJson(clientId) ==
    /\ ReceiveLogged(clientId, "unparseable")
    /\ LET e == handleMessageEntry(clients, <<>>, clientId, FALSE)
       IN /\ out' = e.o
          /\ escaped' = e.thrown
    /\ UNCHANGED <<registryVars, meetings, waitingAnswers, timers, nextSid, flushLog,
                   directIce, queue, wire, quiet>>

(* a frame that parses and never reaches the switch: the exception is      *)
(* thrown before the try block and leaves the 'message' listener           *)
Escape(clientId, type) ==
    /\ ReceiveLogged(clientId, type)
    /\ LET e == handleMessageEntry(clients, <<>>, clientId, TRUE)
       IN /\ ~e.dispatched
          /\ out' = e.o
          /\ escaped' = e.thrown
    /\ UNCHANGED <<registryVars, meetings, waitingAnswers, timers, nextSid, flushLog,
                   directIce, queue, wire, quiet>>

(* no 'uncaughtException' listener is installed: once an exception has     *)
(* escaped, the process is gone and nothing more is handled                *)
Running == ~escaped

NextLogged ==
    \/ Idle /\ Running /\ Connect
    \/ Idle /\ Running /\ \E c \in clients : InvalidJson(c)
    \/ Idle /\ Running /\ \E c \in clients, type \in MessageTypes : Escape(c, type)
    \/ Idle /\ Running /\ \E c \in clients : Close(c)
    \/ Drain

SpecLogged == Init /\ [][NextLogged]_vars

(* C25: no inbound message lets an exception escape the message handler:   *)
(* every fault raised while handling a message is caught per message.      *)
C25_NoExceptionEscapes == ~escaped

(* a parseable frame has just been received and the exception raised for   *)
(* it has left the handler while another connection was open               *)
C25_Witness ==
    /\ escaped
    /\ inp.type \in MessageTypes
    /\ clients \ {inp.clientId} # {}
    /\ out = <<>>

(* ----------------------------------------------------------------------- *)
(* an offer or answer without targetUserId, sent by a connection bound to  *)
(* a meeting: handleSdpMessage broadcasts it with the sender excluded      *)
SdpToMeeting ==
    /\ inp'.type \in {"webrtc-offer", "webrtc-answer"}
    /\ inp'.data.sdp # NULL
    /\ inp'.data.sdpType # NULL
    /\ inp'.data.targetUserId = NULL
    /\ inp'.meetingId \in DOMAIN meetings

(* positions in o of the frames of `type` written to clientId *)
Deliveries(o, clientId, type) ==
    {i \in 1..Len(o) : o[i].to = clientId /\ o[i].type = type}

(* C26: a broadcast to a meeting with an excluded connection never         *)
(* delivers to that connection, even when it is itself bound to the        *)
(* meeting, and delivers to every other connection bound to the meeting.   *)
C26_BroadcastSkipsExcluded ==
    [][SdpToMeeting =>
          /\ getMeta(metas, inp'.clientId).meetingId = inp'.meetingId
          /\ Deliveries(out', inp'.clientId, inp'.type) = {}
          /\ \A d \in clients \ {inp'.clientId} :
                Cardinality(Deliveries(out', d, inp'.type)) =
                    IF getMeta(metas, d).meetingId = inp'.meetingId THEN 1 ELSE 0]_vars

(* the same for participant_joined on the peer-to-peer server: the joiner, *)
(* bound to the meeting before the broadcast, is the excluded connection   *)
C26_BroadcastSkipsExcludedP2P ==
    [][(inp'.type = "join_request" /\ ~LacksRequiredP2P(inp')) =>
          /\ getMeta(metas', inp'.clientId).meetingId = inp'.data.meeting_id
          /\ Deliveries(out', inp'.clientId, "participant_joined") = {}
          /\ \A d \in clients \ {inp'.clientId} :
                Cardinality(Deliveries(out', d, "participant_joined")) =
                    IF getMeta(metas, d).meetingId = inp'.data.meeting_id THEN 1 ELSE 0]_vars

(* an offer has just been broadcast to a meeting: the other connection of  *)
(* the meeting received it and the sender, bound to the same meeting, did  *)
(* not                                                                     *)
C26_Witness ==
    /\ inp.type = "webrtc-offer"
    /\ inp.data.targetUserId = NULL
    /\ inp.meetingId # NULL
    /\ getMeta(metas, inp.clientId).meetingId = inp.meetingId
    /\ Deliveries(out, inp.clientId, "webrtc-offer") = {}
    /\ \E d \in clients \ {inp.clientId} :
          /\ getMeta(metas, d).meetingId = inp.meetingId
          /\ Deliveries(out, d, "webrtc-offer") # {}

(* ======================================================================= *)
(*  The enhanced server over probe intervals.  setupWebSocketServer        *)
(*  installs the 'message', 'close' and 'error' listeners and no timer:    *)
(*  when an interval elapses nothing runs in the server.  quiet counts,    *)
(*  for every open connection, the intervals elapsed since its last frame. *)
(* ======================================================================= *)

MaxQuiet == 3          \* intervals counted for a silent connection

(* a probe interval elapses: no callback of the server is due *)
Tick ==
    /\ \E c \in clients : quiet[c] < MaxQuiet
    /\ quiet' = [c \in ClientIds |->
                    IF c \in clients /\ quiet[c] < MaxQuiet THEN quiet[c] + 1 ELSE quiet[c]]
    /\ inp' = NoFrame
    /\ out' = <<>>
    /\ UNCHANGED <<registryVars, meetings, directIce, waitingAnswers, timers, nextSid,
                   flushLog, received, queue, wire, escaped>>

NextTimed ==
    \/ Idle /\ Connect
    \/ Idle /\ \E c \in clients, u \in Users \cup {NULL} : RegisterEnh(c, u)
    \/ Idle /\ \E c \in clients, m \in DataMeeting : Join(c, m)
    \/ Idle /\ \E c \in clients : LeaveEnh(c)
    \/ Idle /\ \E c \in clients : UnknownType(c)
    \/ Idle /\ \E c \in clients : CloseEnh(c)
    \/ Idle /\ Tick
    \/ Drain

SpecTimed == Init /\ [][NextTimed]_vars

(* C27: a connection with no inbound activity across two consecutive probe *)
(* intervals is evicted: when the second silent interval has elapsed it is *)
(* no longer registered.                                                   *)
C27_SilentConnectionEvicted ==
    \A c \in ClientIds : quiet[c] >= 2 => c \notin clients

(* a joined connection has been silent for two intervals and is still      *)
(* registered and bound to its meeting                                      *)
C27_Witness ==
    \E c \in clients :
        /\ quiet[c] >= 2
        /\ getMeta(metas, c).userId # NULL
        /\ getMeta(metas, c).meetingId \in DOMAIN meetings
        /\ getMeta(metas, c).userId \in meetings[getMeta(metas, c).meetingId].participants

(* a frame of connection clientId has just been handled *)
Handled(clientId) ==
    /\ inp'.type \notin {"none", "close"}
    /\ inp'.clientId = clientId

(* C28: an inbound message resets the connection's activity marker (so a   *)
(* connection that sends a message in every probe interval is never        *)
(* evicted): after a frame of a connection has been handled, what the      *)
(* server keeps for the connection holds a marker that is set.             *)
C28_MessageMarksAlive ==
    [][\A c \in clients : Handled(c) =>
          /\ "isAlive" \in DOMAIN getMeta(metas', c)
          /\ getMeta(metas', c)["isAlive"] = TRUE]_vars

(* what holds instead: a connection leaves the registry only when its      *)
(* socket closes, however long it has been silent                          *)
C28_OnlyCloseUnregisters ==
    [][clients \ clients' # {} =>
          /\ inp'.type = "close"
          /\ clients \ clients' = {inp'.clientId}]_vars

(* a connection that sent a frame in the interval just begun, after two    *)
(* silent intervals, is registered and carries no marker                   *)
C28_Witness ==
    /\ inp.type = "register"
    /\ inp.clientId \in clients
    /\ quiet[inp.clientId] = 0
    /\ \E d \in clients \ {inp.clientId} : quiet[d] >= 2
    /\ DOMAIN getMeta(metas, inp.clientId) = {"userId", "meetingId"}

(* ======================================================================= *)
(*  The aggregating server with the frames of a connection in flight.      *)
(*  A client puts frames on its connection (Send); the socket emits one    *)
(*  'message' event per frame (Emit), whose listener runs handleMessage to *)
(*  its end.  Every frame carries the number n of its sending; wire keeps, *)
(*  per receiving connection, the frames the handlers forwarded to it.     *)
(* ======================================================================= *)

MaxQueued == 3         \* frames the clients put on their connections in one run

(* frames with a target: offers, one answer, one candidate *)
QueuedFrames ==
    {[type |-> "offer", meeting_id |-> "m1", offers |-> os] :
        os \in {<<"u1", "u2">>, <<"u1">>, <<"u2">>}}
    \cup {[type |-> "answer", meeting_id |-> m, answers |-> <<a>>] :
        m \in DataMeeting, a \in [to : Users, sdp : {"sdpA"}]}
    \cup {[type |-> "ice_candidate", to |-> t] : t \in Users}

(* variant of Emitted: the listener is given the newest frame first *)
EmittedLast(q) == Len(q)

(* position in the connection's queue of the frame of the next 'message' event *)
Emitted(q) == 1

Remaining(q, i) == SubSeq(q, 1, i - 1) \o SubSeq(q, i + 1, Len(q))

(* the frames among o that a handler forwarded to clientId, as wire keeps them *)
RECURSIVE ForwardedTo(_, _, _, _)
ForwardedTo(o, clientId, via, n) ==
    IF o = <<>> THEN <<>>
    ELSE LET f == Head(o)
             rest == ForwardedTo(Tail(o), clientId, via, n)
         IN IF f.to = clientId /\ f.site.at = "forward"
            THEN <<[via |-> via, n |-> n, type |-> f.type]>> \o rest
            ELSE rest

(* message {type:'register', data:{from}} on a connection not yet registered *)
RegisterQueued(clientId, dataFrom) ==
    /\ clientId \in clients
    /\ getMeta(metas, clientId).userId = NULL
    /\ metas' = bindUserMetas(metas, clientId, dataFrom)
    /\ userToClient' = bindUserMap(userToClient, clientId, dataFrom)
    /\ out' = sendToClient(clients, <<>>, clientId, "registered", Plain("reply"),
                           [from |-> dataFrom])
    /\ inp' = [type |-> "register", clientId |-> clientId, boundUser |-> dataFrom,
               data |-> [from |-> dataFrom]]
    /\ UNCHANGED <<clients, nextClient, meetings, waitingAnswers, timers, nextSid, flushLog,
                   received, directIce>>
    /\ UNCHANGED auxVars

(* a registered client writes a frame to its connection *)
Send(clientId, frame) ==
    /\ clientId \in clients
    /\ getMeta(metas, clientId).userId # NULL
    /\ received < MaxQueued
    /\ received' = received + 1
    /\ queue' = [queue EXCEPT ![clientId] = Append(@, [n |-> received + 1, frame |-> frame])]
    /\ inp' = NoFrame
    /\ out' = <<>>
    /\ UNCHANGED <<registryVars, meetings, waitingAnswers, timers, nextSid, flushLog,
                   directIce, wire, quiet, escaped>>

(* ws.on('message'): handleMessage runs for the emitted frame *)
Emit(clientId) ==
    /\ clientId \in clients
    /\ queue[clientId] # <<>>
    /\ LET i == Emitted(queue[clientId])
           n == queue[clientId][i].n
           frame == queue[clientId][i].frame
           fromUser == BoundUser(metas, clientId, NULL)
           st == IF frame.type = "offer"
                 THEN handleOffer(Globals, clients, userToClient, nextSid, clientId,
                                  fromUser, frame.meeting_id, frame.offers)
                 ELSE IF frame.type = "answer"
                 THEN handleAnswer(Globals, clients, userToClient, clientId, fromUser,
                                   frame.meeting_id, frame.answers, <<>>)
                 ELSE handleIceCandidate(Globals, clients, metas, userToClient, clientId,
                                         fromUser, frame.to, NULL, "k1")
       IN /\ frame.type = "offer" => nextSid <= MaxSessions
          /\ Commit(st)
          /\ nextSid' = IF frame.type = "offer" THEN nextSid + 1 ELSE nextSid
          /\ queue' = [queue EXCEPT ![clientId] = Remaining(@, i)]
          /\ wire' = [d \in ClientIds |-> wire[d] \o ForwardedTo(st.o, d, clientId, n)]
          /\ inp' = [type |-> frame.type, clientId |-> clientId, boundUser |-> fromUser,
                     data |-> frame]
    /\ UNCHANGED <<registryVars, received, directIce, quiet, escaped>>

NextQueued ==
    \/ Idle /\ Connect
    \/ Idle /\ \E c \in clients, u \in Users : RegisterQueued(c, u)
    \/ Idle /\ \E c \in clients, f \in QueuedFrames : Send(c, f)
    \/ Idle /\ \E c \in clients : Emit(c)
    \/ Idle /\ \E c \in clients : Close(c)
    \/ Idle /\ Deadline
    \/ Drain

SpecQueued == Init /\ [][NextQueued]_vars

(* the frames forwarded to a connection from one sending connection are in *)
(* the order in which that connection sent them                            *)
InSendOrder ==
    \A d \in ClientIds : \A i, j \in 1..Len(wire[d]) :
        (i < j /\ wire[d][i].via = wire[d][j].via) => wire[d][i].n <= wire[d][j].n

(* the step forwards a frame of user u to connection d while an answer of  *)
(* u for the joiner on d, sent earlier, is held by an aggregation session  *)
Overtakes(u, d) ==
    /\ inp'.type \in {"offer", "answer", "ice_candidate"}
    /\ inp'.boundUser = u
    /\ \A c \in DOMAIN metas \ {inp'.clientId} : metas[c].userId # u
    /\ \E i \in 1..Len(out') : out'[i].to = d /\ out'[i].site.at = "forward"
    /\ \E key \in DOMAIN waitingAnswers \cap DOMAIN waitingAnswers' :
          /\ waitingAnswers'[key].joinerClientId = d
          /\ u \in DOMAIN waitingAnswers[key].collected

C30_NoEmptyMeeting ==
    \A m \in DOMAIN meetings : meetings[m].participants # {}

(* the peer-to-peer server keeps it: a meeting is created by the join that *)
(* adds its first participant and deleted with the removal of the last     *)
C30_NoEmptyMeetingP2P ==
    \A m \in Meetings : m \in DOMAIN meetings => meetings[m].participants # {}

(* a join_request has just been answered and the meeting it created has no *)
(* participant                                                             *)
C30_Witness ==
    /\ inp.type = "join_request"
    /\ inp.boundUser # NULL
    /\ inp.data.meeting_id \in DOMAIN meetings
    /\ meetings[inp.data.meeting_id].participants = {}
    /\ FramesTo(out, inp.clientId, "participants") # {}

(* ----------------------------------------------------------------------- *)
(* user u is listed as a participant of meeting m *)
Listed(u, m) == m \in DOMAIN meetings /\ u \in meetings[m].participants

(* some live connection is bound to user u and to meeting m *)
Present(u, m) ==
    \E c \in clients : getMeta(metas, c).userId = u /\ getMeta(metas, c).meetingId = m

(* C31: presence is accurate in every reachable state: user u is in        *)
(* meeting m's participant set if and only if some live connection is      *)
(* bound to user u and to meeting m.                                       *)
C31_PresenceAccurate ==
    \A u \in Users, m \in Meetings : Listed(u, m) <=> Present(u, m)

(* a joined connection has just registered under another user id: the      *)
(* meeting lists the user it joined as, and no connection is bound to it   *)
C31_Witness ==
    /\ inp.type = "register"
    /\ inp.userId # NULL
    /\ inp.meetingId # NULL
    /\ inp.data.userId # NULL
    /\ inp.data.userId # inp.userId
    /\ Listed(inp.userId, inp.meetingId)
    /\ ~Present(inp.userId, inp.meetingId)

(* ----------------------------------------------------------------------- *)
(* C32: the user-binding map is consistent with the connection metadata:   *)
(* whenever userToClient maps user u to connection c, c is still           *)
(* registered and c's metadata names u as its user.                        *)
C32_BindingsConsistent ==
    \A u \in Users :
        getClientIdByUser(userToClient, u) # NoClient =>
            /\ getClientIdByUser(userToClient, u) \in clients
            /\ getMeta(metas, getClientIdByUser(userToClient, u)).userId = u

(* a connection that had registered under two user ids has just closed and *)
(* the first of them is still mapped to it                                 *)
C32_Witness ==
    /\ inp.type = "close"
    /\ inp.clientId \notin clients
    /\ \E u \in Users : /\ u # inp.userId
                        /\ getClientIdByUser(userToClient, u) = inp.clientId

(* ----------------------------------------------------------------------- *)
(* C33: the keys of a meeting's iceCandidates and sdps maps are members of *)
(* that meeting's participant set.                                         *)
C33_StoredOnlyForParticipants ==
    \A m \in DOMAIN meetings :
        /\ DOMAIN meetings[m].iceCandidates \subseteq meetings[m].participants
        /\ DOMAIN meetings[m].sdps \subseteq meetings[m].participants

(* a user who is not a participant has just sent a candidate addressed to  *)
(* the meeting, and the meeting now stores it under that user              *)
C33_Witness ==
    /\ inp.type = "ice_candidate"
    /\ inp.boundUser # NULL
    /\ inp.data.meeting_id \in DOMAIN meetings
    /\ inp.boundUser \in DOMAIN meetings[inp.data.meeting_id].iceCandidates
    /\ inp.boundUser \notin meetings[inp.data.meeting_id].participants

(* ----------------------------------------------------------------------- *)
(* the sessions a step has flushed *)
FlushedByStep == {s \in SessionIds : flushLog'[s] # flushLog[s]}

(* the step is a deadline callback that found a session to flush *)
DeadlineFlushes == timers # <<>> /\ inp' = NoFrame /\ FlushedByStep # {}

(* C34: a deadline timer only ever flushes the session that created it:    *)
(* when the same joiner sends a second meeting offer while its first       *)
(* session is open, the first session's timer does not flush the second    *)
(* session.                                                                *)
C34_TimerFlushesOwnSession ==
    [][DeadlineFlushes => FlushedByStep = {Head(timers).id}]_vars

(* the joiner has just sent a second meeting offer while its first session *)
(* was open: the key holds the second session and the deadline timers of   *)
(* both sessions are pending for it                                        *)
C34_Witness ==
    /\ inp.type = "offer"
    /\ \E k \in DOMAIN waitingAnswers :
          /\ k = JoinerKey(inp.data.meeting_id, inp.boundUser)
          /\ waitingAnswers[k].sid = 2
          /\ \E i, j \in 1..Len(timers) :
                /\ i < j
                /\ timers[i] = [id |-> 1, key |-> k]
                /\ timers[j] = [id |-> 2, key |-> k]

(* ----------------------------------------------------------------------- *)
(* the step writes the joiner's connection a flush of joinerKey that lists *)
(* the answer                                                              *)
DeliveredByStep(joinerKey, joinerClientId, ans) ==
    \E f \in FlushFramesOf(out') :
        /\ f.to = joinerClientId
        /\ f.site.key = joinerKey
        /\ ans \in SeqToSet(f.data.answers)

(* C35: no answer is lost.  Finite form: an answer the server has accepted *)
(* and holds for a joiner whose connection stays open leaves the server's  *)
(* memory only inside a flush written to that joiner; an answer dropped in *)
(* any other way can never be delivered afterwards.  In particular the     *)
(* joiner re-sending its offer does not drop the answers already held.     *)
C35_NoAnswerLost ==
    [][\A k \in DOMAIN waitingAnswers :
          \A p \in DOMAIN waitingAnswers[k].collected :
              waitingAnswers[k].joinerClientId \in clients' =>
                 \/ /\ k \in DOMAIN waitingAnswers'
                    /\ p \in DOMAIN waitingAnswers'[k].collected
                 \/ DeliveredByStep(k, waitingAnswers[k].joinerClientId,
                                    waitingAnswers[k].collected[p])]_vars

(* an answer has just been accepted for an open session that waits for     *)
(* more: it is held, acknowledged with status 'received', and the joiner's *)
(* connection is open                                                      *)
C35_Witness ==
    /\ inp.type = "answer"
    /\ \E f \in Frames : /\ f.site.at = "ack" /\ f.type = "answer"
                         /\ f.data.status = "received"
    /\ \E k \in DOMAIN waitingAnswers :
          /\ inp.boundUser \in DOMAIN waitingAnswers[k].collected
          /\ ~HaveAll(waitingAnswers[k])
          /\ waitingAnswers[k].joinerClientId \in clients

(* ----------------------------------------------------------------------- *)
(* C36: a session records answers only from peers in its expected set: an  *)
(* answer from a user outside the expected set (or removed from it as      *)
(* unreachable) is not recorded in the session, so the aggregated message  *)
(* holds answers of expected peers only.                                   *)
C36_CollectedFromExpectedOnly ==
    \A k \in DOMAIN waitingAnswers :
        DOMAIN waitingAnswers[k].collected \subseteq waitingAnswers[k].expected

(* an answer addressed to the joiner of an open session has just arrived   *)
(* from a user outside the session's expected set and the session holds it *)
C36_Witness ==
    /\ AnswerHandled(inp)
    /\ \E k \in DOMAIN waitingAnswers :
          /\ k = JoinerKey(inp.data.meeting_id, inp.data.answers[1].to)
          /\ inp.boundUser \notin waitingAnswers[k].expected
          /\ inp.boundUser \in DOMAIN waitingAnswers[k].collected

(* ----------------------------------------------------------------------- *)
(* the connection bound to the joiner of joinerKey after the step *)
JoinerBoundAfter(joinerKey) == getClientIdByUser(userToClient', joinerKey[2])

(* C37: the aggregated answer of a session is delivered to the connection  *)
(* that is bound to the joiner's user id at flush time: when the joiner    *)
(* has re-registered on a new connection since its offer, the flush goes   *)
(* to the new connection and not to the superseded one.                    *)
C37_FlushGoesToBoundConnection ==
    [][\A s \in FlushedByStep :
          LET joinerKey == flushLog'[s].key
          IN JoinerBoundAfter(joinerKey) \in clients' =>
                /\ \E f \in FlushFramesOf(out') :
                      f.site.key = joinerKey /\ f.to = JoinerBoundAfter(joinerKey)
                /\ \A f \in FlushFramesOf(out') :
                      f.site.key = joinerKey => f.to = JoinerBoundAfter(joinerKey)]_vars

(* a flush has just been written to the connection on which the joiner    *)
(* registered first and opened the session, although the joiner's user id  *)
(* is bound to another open connection on which it registered later        *)
C37_Witness ==
    \E f \in FlushFrames :
        /\ f.to \in clients
        /\ getMeta(metas, f.to).userId = f.site.key[2]
        /\ getClientIdByUser(userToClient, f.site.key[2]) \in clients \ {f.to}
        /\ getMeta(metas, getClientIdByUser(userToClient, f.site.key[2])).userId
              = f.site.key[2]

(* ----------------------------------------------------------------------- *)
(* The enhanced server with two meetings to join, so that the sender and   *)
(* the target of a direct message can be bound to different meetings.      *)

TwoMeetings == {"m1", "m2"}

NextTwoMeetings ==
    \/ Idle /\ Connect
    \/ Idle /\ \E c \in clients, u \in Users : RegisterEnh(c, u)
    \/ Idle /\ \E c \in clients, m \in TwoMeetings : Join(c, m)
    \/ Idle /\ \E c \in clients, kind \in SdpKinds : \E t \in Users \cup {NULL},
          s \in Sdps \cup {NULL}, y \in {kind, NULL} :
          UnreadSdp(t, s, y) /\ Sdp(c, kind, t, s, y)
    \/ Idle /\ \E c \in clients : CloseEnh(c)
    \/ Drain

SpecTwoMeetings == Init /\ [][NextTwoMeetings]_vars

(* a well-formed offer or answer addressed to a user whose connection is   *)
(* open                                                                    *)
SdpToOnlineTarget(frame) ==
    /\ frame.type \in {"webrtc-offer", "webrtc-answer"}
    /\ frame.data.targetUserId # NULL
    /\ frame.data.sdp # NULL /\ frame.data.sdpType # NULL
    /\ getClientIdByUser(userToClient, frame.data.targetUserId) \in clients

TargetMeeting(frame) ==
    getMeta(metas, getClientIdByUser(userToClient, frame.data.targetUserId)).meetingId

(* C38: a targeted offer or answer whose target is bound to a meeting      *)
(* different from the sender's bound meeting is refused: the sender gets a *)
(* 'User is busy' error and nothing is delivered to the target; a target   *)
(* bound to no meeting or to the sender's meeting receives the message.    *)
C38_BusyTargetRefused ==
    [][SdpToOnlineTarget(inp') =>
          LET target == getClientIdByUser(userToClient, inp'.data.targetUserId)
          IN IF TargetMeeting(inp') # NULL /\ TargetMeeting(inp') # inp'.meetingId
             THEN out' = <<Frame(inp'.clientId, "error", Plain("reply"),
                                 [message |-> "User is busy"])>>
             ELSE out' = <<Frame(target, inp'.type, Plain("forward"),
                                 [fromId |-> inp'.userId, sdp |-> inp'.data.sdp,
                                  sdpType |-> inp'.data.sdpType])>>]_vars

(* a sender bound to one meeting has just addressed an offer or answer to  *)
(* a user bound to the other meeting and was told the user is busy         *)
C38_Witness ==
    /\ SdpToOnlineTarget(inp)
    /\ inp.meetingId # NULL
    /\ TargetMeeting(inp) # NULL
    /\ TargetMeeting(inp) # inp.meetingId
    /\ \E f \in Frames : f.to = inp.clientId /\ f.data = [message |-> "User is busy"]

(* ----------------------------------------------------------------------- *)
(* the frames whose handler forwards to the users they name *)
ForwardsOffer(frame) ==
    frame.type = "offer" /\ frame.boundUser # NULL /\ Len(frame.data.offers) > 0

ForwardsIce(frame) ==
    /\ frame.type = "ice_candidate" /\ frame.boundUser # NULL
    /\ frame.data.candidate # NULL /\ frame.data.to # NULL

(* an answer that finds no open session for its joiner goes the forward branch *)
ForwardsAnswer(frame) ==
    /\ AnswerHandled(frame)
    /\ \A i \in 1..Len(frame.data.answers) :
          \/ frame.data.meeting_id = NULL
          \/ JoinerKey(frame.data.meeting_id, frame.data.answers[i].to)
                \notin DOMAIN waitingAnswers

(* C39: forwarding a targeted offer, answer or ICE candidate is a pure     *)
(* relay: it leaves the connection registry, every meeting's participants, *)
(* iceCandidates and sdps, and the aggregation sessions unchanged.  The    *)
(* session a meeting offer opens for its own joiner is not counted as a    *)
(* change made by the forwarding.                                          *)
C39_ForwardIsPureRelay ==
    [][(ForwardsOffer(inp') \/ ForwardsIce(inp') \/ ForwardsAnswer(inp')) =>
          /\ UNCHANGED <<clients, metas, userToClient, meetings>>
          /\ \/ ForwardsOffer(inp') /\ inp'.data.meeting_id # NULL
             \/ UNCHANGED <<waitingAnswers, timers>>]_vars

(* a meeting offer has just been forwarded to a connected user who is not  *)
(* bound to the meeting, and the meeting now lists that user               *)
C39_Witness ==
    /\ ForwardsOffer(inp)
    /\ inp.data.meeting_id \in DOMAIN meetings
    /\ \E f \in Frames :
          /\ f.site.at = "forward" /\ f.type = "offer"
          /\ getMeta(metas, f.to).userId \in meetings[inp.data.meeting_id].participants
          /\ getMeta(metas, f.to).meetingId # inp.data.meeting_id
          /\ getMeta(metas, f.to).userId # inp.boundUser

====
